---- MODULE Spec2Model ----
(***************************************************************************)
(* Model of app.py: the phonetic normalisation pipeline of the bot         *)
(* (num_to_kanji, convert_prices_to_kanji, to_hiragana, to_romaji).        *)
(*                                                                         *)
(* Representation.  A character is its Unicode code point (a natural       *)
(* number) and a Python str is a sequence of code points, so that the      *)
(* katakana -> hiragana offset of line 67 is the arithmetic the code does. *)
(* A Python int is unbounded; it is kept as its base-10000 digits          *)
(* ("limbs"), least significant first, without a most significant zero     *)
(* limb (0 is the empty sequence): num % 10000 is Head, num // 10000 is    *)
(* Tail.                                                                   *)
(***************************************************************************)
EXTENDS Integers, Sequences, FiniteSets, TLC

VARIABLES
    k_pc,     \* SpecKanji: "call" before num_to_kanji runs, "ret" after
    k_num,    \* SpecKanji: the argument of num_to_kanji (limbs)
    k_out,    \* SpecKanji: the str num_to_kanji returned
    p_pc,     \* SpecPrice: number of rewriting passes done, 0..6
    p_in,     \* SpecPrice: the argument of convert_prices_to_kanji
    p_prev,   \* SpecPrice: the text the last pass received
    p_text,   \* SpecPrice: the local variable text
    t_pc,     \* Spec: "call", "hira" (to_hiragana returned), "roma"
    tokens,   \* Spec: what _sudachi.tokenize returns for the text
    spaced,   \* Spec: the argument spaced
    words,    \* Spec: the list words to_hiragana built
    hira,     \* Spec: the str to_hiragana returned
    roma,     \* Spec: the str to_romaji returned
    state,    \* the dict state: chat id -> settings and quiz state
    DEFAULTS, \* the dict DEFAULTS
    READING,  \* the rows of Reading.csv
    MEANING,  \* the rows of Meaning.csv
    GRAMMAR,  \* the rows of Grammar.csv
    w_pc,     \* SpecWebhook: "idle" between requests, "loop" in the for loop
    w_status, \* SpecWebhook: the status the request was answered with (0:
              \* not answered yet)
    w_req,    \* SpecWebhook: the request being served or served last
    w_ev,     \* SpecWebhook: the event the loop handled last in the request
    w_branch, \* SpecWebhook: the branch that handled w_ev
    w_reply,  \* SpecWebhook: the messages reply_message sent for w_ev
    q_call    \* SpecQuiz: the last call of a quiz function and its result

kanjiVars == <<k_pc, k_num, k_out>>
priceVars == <<p_pc, p_in, p_prev, p_text>>
textVars  == <<t_pc, tokens, spaced, words, hira, roma>>
webVars   == <<state, DEFAULTS, READING, MEANING, GRAMMAR, w_pc,
               w_status, w_req, w_ev, w_branch, w_reply, q_call>>
vars      == <<k_pc, k_num, k_out, p_pc, p_in, p_prev, p_text,
               t_pc, tokens, spaced, words, hira, roma,
               state, DEFAULTS, READING, MEANING, GRAMMAR, w_pc,
               w_status, w_req, w_ev, w_branch, w_reply, q_call>>

(***************************************************************************)
(* Generic helpers on sequences.                                           *)
(***************************************************************************)
RECURSIVE Concat(_)
\* "".join(parts)
Concat(parts) ==
    IF parts = <<>> THEN <<>> ELSE Head(parts) \o Concat(Tail(parts))

RECURSIVE Reverse(_)
\* reversed(parts)
Reverse(s) ==
    IF s = <<>> THEN <<>> ELSE Reverse(Tail(s)) \o <<Head(s)>>

RECURSIVE SeqsUpTo(_, _)
\* every sequence over S of length 0..n
SeqsUpTo(S, n) ==
    IF n = 0 THEN {<<>>}
    ELSE LET shorter == SeqsUpTo(S, n - 1)
         IN  shorter \cup {s \o <<x>> : s \in shorter, x \in S}

Min(a, b) == IF a < b THEN a ELSE b

(***************************************************************************)
(* Number -> kanji numeral (lines 73-98).                                  *)
(***************************************************************************)
\* _DIG = "zero one two ... nine" in kanji: U+96F6 U+4E00 U+4E8C U+4E09
\* U+56DB U+4E94 U+516D U+4E03 U+516B U+4E5D; _DIG[d] is DIG[d + 1]
DIG == <<38646, 19968, 20108, 19977, 22235, 20116, 20845, 19971, 20843, 20061>>

\* _UNIT1 = ["", ten U+5341, hundred U+767E, thousand U+5343]
UNIT1 == << <<>>, <<21313>>, <<30334>>, <<21315>> >>

\* _UNIT4 = ["", man U+4E07, oku U+5104, cho U+5146]
UNIT4 == << <<>>, <<19975>>, <<20740>>, <<20806>> >>

RECURSIVE Pow10(_)
Pow10(e) == IF e = 0 THEN 1 ELSE 10 * Pow10(e - 1)

\* the mutated loop body: the digit 1 is written before a place unit too
RECURSIVE four_digits_loop_NoElision(_, _)
four_digits_loop_NoElision(n, i) ==
    IF i > 3 THEN <<>>
    ELSE LET u == UNIT1[4 - i]
             d == (n \div Pow10(3 - i)) % 10
         IN  (IF d = 0 THEN <<>> ELSE <<DIG[d + 1]>> \o u)
                 \o four_digits_loop_NoElision(n, i + 1)

RECURSIVE four_digits_loop(_, _)
\* the for loop of _four_digits_to_kanji from index i on: what it adds to s
four_digits_loop(n, i) ==
    IF i > 3 THEN <<>>
    ELSE LET u == UNIT1[4 - i]                  \* _UNIT1[::-1][i]
             d == (n \div Pow10(3 - i)) % 10
         IN  (IF d = 0 THEN <<>>
              ELSE (IF u # <<>> /\ d = 1 THEN <<>> ELSE <<DIG[d + 1]>>) \o u)
                 \o four_digits_loop(n, i + 1)

_four_digits_to_kanji(n) ==
    LET s == four_digits_loop(n, 0)
    IN  IF s = <<>> THEN <<DIG[1]>> ELSE s

RECURSIVE num_to_kanji_parts(_, _)
\* the list parts the while loop builds, from loop index i on
num_to_kanji_parts(num, i) ==
    IF num # <<>> /\ i < Len(UNIT4)
    THEN LET n == Head(num)                                   \* num % 10000
         IN  (IF n # 0 THEN << _four_digits_to_kanji(n) \o UNIT4[i + 1] >>
              ELSE <<>>)
                 \o num_to_kanji_parts(Tail(num), i + 1)      \* num //= 10000
    ELSE <<>>

\* the mutant: a zero group still gets its myriad unit
RECURSIVE num_to_kanji_parts_UnitOnZero(_, _)
num_to_kanji_parts_UnitOnZero(num, i) ==
    IF num # <<>> /\ i < Len(UNIT4)
    THEN LET n == Head(num)
         IN  << (IF n # 0 THEN _four_digits_to_kanji(n) ELSE <<>>) \o UNIT4[i + 1] >>
                 \o num_to_kanji_parts_UnitOnZero(Tail(num), i + 1)
    ELSE <<>>

num_to_kanji_UnitOnZero(num) ==
    IF num = <<>> THEN <<DIG[1]>>
    ELSE LET s == Concat(Reverse(num_to_kanji_parts_UnitOnZero(num, 0)))
         IN  IF s = <<>> THEN <<DIG[1]>> ELSE s

num_to_kanji(num) ==
    IF num = <<>> THEN <<DIG[1]>>
    ELSE LET s == Concat(Reverse(num_to_kanji_parts(num, 0)))
         IN  IF s = <<>> THEN <<DIG[1]>> ELSE s

(***************************************************************************)
(* SpecKanji: num_to_kanji applied to a bounded set of integers.           *)
(***************************************************************************)
\* decimal digits of the least significant limb range over 0..MaxDigit
MaxDigit == 3

\* values the upper limbs are drawn from
HiLimbs == {0, 1, 1000, 9090}

LowLimbs ==
    LET D == 0..Min(MaxDigit, 9)
    IN  {1000 * a + 100 * b + 10 * c + d : a \in D, b \in D, c \in D, d \in D}

RECURSIVE Canon(_)
\* a Python int has no leading zeros: drop most significant zero limbs
Canon(limbs) ==
    IF limbs = <<>> THEN <<>>
    ELSE IF limbs[Len(limbs)] = 0 THEN Canon(SubSeq(limbs, 1, Len(limbs) - 1))
    ELSE limbs

\* the integers num_to_kanji is applied to: up to 2 * 10^16
KanjiInputs ==
    {Canon(<<g0, g1, g2, g3, g4>>) :
        g0 \in LowLimbs, g1 \in HiLimbs, g2 \in HiLimbs, g3 \in HiLimbs,
        g4 \in {0, 1}}

PriceIdle == p_pc = 0 /\ p_in = <<>> /\ p_prev = <<>> /\ p_text = <<>>
TextIdle  == t_pc = "call" /\ tokens = <<>> /\ spaced = FALSE
                /\ words = <<>> /\ hira = <<>> /\ roma = <<>>
KanjiIdle == k_pc = "call" /\ k_num = <<>> /\ k_out = <<>>

\* no request was ever served: the module as imported, without quiz files
WebIdle ==
    /\ state = <<>>
    /\ DEFAULTS = [show_hira |-> TRUE, show_romaji |-> TRUE,
                   quiz_mode |-> "None", quiz_last |-> <<>>]
    /\ READING = <<>> /\ MEANING = <<>> /\ GRAMMAR = <<>>
    /\ w_pc = "idle" /\ w_status = 0
    /\ w_req = <<>> /\ w_ev = <<>> /\ w_branch = "" /\ w_reply = <<>>
    /\ q_call = <<>>

InitKanji ==
    /\ k_pc = "call"
    /\ k_num \in KanjiInputs
    /\ k_out = <<>>
    /\ PriceIdle
    /\ TextIdle
    /\ WebIdle

\* one call of num_to_kanji(k_num)
NumToKanji ==
    /\ k_pc = "call"
    /\ k_out' = num_to_kanji(k_num)
    /\ k_pc' = "ret"
    /\ UNCHANGED <<k_num, priceVars, textVars, webVars>>

NextKanji == NumToKanji

SpecKanji == InitKanji /\ [][NextKanji]_vars

(***************************************************************************)
(* The standard Japanese numeral, written most significant group first.    *)
(***************************************************************************)
StdDigit == <<19968, 20108, 19977, 22235, 20116, 20845, 19971, 20843, 20061>>
StdZero  == <<38646>>
StdMyriad == << <<>>, <<19975>>, <<20740>>, <<20806>>, <<20140>> >>

\* a digit in a place that has a unit: nothing for 0, the bare unit for 1
StdPlace(d, unit) ==
    IF d = 0 THEN <<>> ELSE IF d = 1 THEN unit ELSE <<StdDigit[d]>> \o unit

StdOnes(d) == IF d = 0 THEN <<>> ELSE <<StdDigit[d]>>

StdGroup(g) ==
    StdPlace(g \div 1000, <<21315>>) \o StdPlace((g \div 100) % 10, <<30334>>)
        \o StdPlace((g \div 10) % 10, <<21313>>) \o StdOnes(g % 10)

RECURSIVE StdGroups(_, _)
\* groups j, j-1, .., 1 of num, each non-zero one followed by its myriad unit
StdGroups(num, j) ==
    IF j = 0 THEN <<>>
    ELSE (IF num[j] = 0 THEN <<>> ELSE StdGroup(num[j]) \o StdMyriad[j])
             \o StdGroups(num, j - 1)

StdNumeral(num) == IF num = <<>> THEN StdZero ELSE StdGroups(num, Len(num))

\* C1: for every integer 0 <= n < 10^16 (at most four limbs) num_to_kanji(n)
\* is the standard Japanese numeral of n: the zero kanji for 0, else the
\* non-zero 4-digit groups, most significant first, each spelled with the
\* place units (1 elided before a unit) and followed by its myriad unit;
\* 12345, 1000 and 100000000 give the three numerals the claim quotes.
C1_NumToKanjiIsStandard ==
    /\ (k_pc = "ret" /\ Len(k_num) <= 4) => k_out = StdNumeral(k_num)
    /\ k_pc = "ret" =>
          /\ num_to_kanji(<<2345, 1>>) =
                 <<19968, 19975, 20108, 21315, 19977, 30334, 22235, 21313, 20116>>
          /\ num_to_kanji(<<1000>>) = <<21315>>
          /\ num_to_kanji(<<0, 0, 1>>) = <<19968, 20740>>
          /\ num_to_kanji(<<>>) = <<38646>>

\* 100001000: a zero group between two groups, both with an elided 1
C1_Witness ==
    /\ k_pc = "ret"
    /\ k_num = <<1000, 0, 1>>
    /\ k_out = <<19968, 20740, 21315>>

(***************************************************************************)
(* Currency amounts -> kanji (lines 100-125).                              *)
(*                                                                         *)
(* _price_patterns[k], k = 0..5, are of two shapes,                        *)
(*     prefix:  TOKEN \s* (NUM)        (k = 0, 2, 4)                       *)
(*     suffix:  (NUM) \s* TOKEN        (k = 1, 3, 5)                       *)
(* with NUM = \d{1,3}(?:S\d{3})+|\d+ and S the separators of the pattern.  *)
(* The operators below follow re's backtracking search: alternatives left  *)
(* to right, greedy quantifiers longest first.                             *)
(***************************************************************************)
\* \d, on the characters of the model's alphabet (ASCII digits)
IsDigit(c) == c \in 48..57

\* \s: space, tab, newline, ideographic space
IsSpace(c) == c \in {32, 9, 10, 12288}

\* the literal part of pattern k: yen sign U+00A5; U+5186; VND or vnd;
\* dong sign U+20AB or d with stroke U+0111
PatToken(k) ==
    CASE k = 0 -> { <<165>> }
      [] k = 1 -> { <<20870>> }
      [] k \in {2, 3} -> { <<86, 78, 68>>, <<118, 110, 100>> }
      [] OTHER -> { <<8363>>, <<273>> }

\* the separators NUM admits: "," for the yen patterns, "," and "." else
PatSeps(k) == IF k \in {0, 1} THEN {44} ELSE {44, 46}

PatIsPrefix(k) == k \in {0, 2, 4}

\* the number of consecutive digits of t from index i on
RECURSIVE DigitRun(_, _)
DigitRun(t, i) ==
    IF i <= Len(t) /\ IsDigit(t[i]) THEN 1 + DigitRun(t, i + 1) ELSE 0

\* \s* is greedy: the index after the whitespace that starts at i
RECURSIVE SkipSpaces(_, _)
SkipSpaces(t, i) ==
    IF i <= Len(t) /\ IsSpace(t[i]) THEN SkipSpaces(t, i + 1) ELSE i

\* (?:S\d{3}) at index j
GroupAt(t, j, seps) ==
    /\ j + 3 <= Len(t)
    /\ t[j] \in seps
    /\ IsDigit(t[j + 1]) /\ IsDigit(t[j + 2]) /\ IsDigit(t[j + 3])

\* how many (?:S\d{3}) follow one another from index j on
RECURSIVE Groups(_, _, _)
Groups(t, j, seps) ==
    IF GroupAt(t, j, seps) THEN 1 + Groups(t, j + 4, seps) ELSE 0

\* \d{1,3}(?:S\d{3})+ with exactly n leading digits: the ends it can reach,
\* most groups first
Alt1Ends(t, i, seps, n) ==
    IF n > Min(3, DigitRun(t, i)) THEN <<>>
    ELSE LET g == Groups(t, i + n, seps)
         IN  [x \in 1..g |-> i + n + 4 * (g - x + 1)]

\* \d+: the ends it can reach, longest first
Alt2Ends(t, i) ==
    LET r == DigitRun(t, i) IN [x \in 1..r |-> i + r - x + 1]

\* the ends (index after the last character) NUM can reach from i, in the
\* order the search tries them
NumEnds(t, i, seps) ==
    Alt1Ends(t, i, seps, 3) \o Alt1Ends(t, i, seps, 2)
        \o Alt1Ends(t, i, seps, 1) \o Alt2Ends(t, i)

\* the index after TOKEN of pattern k at index i, 0 when it is not there
TokenEnd(k, t, i) ==
    LET hit == {tok \in PatToken(k) :
                   /\ i + Len(tok) - 1 <= Len(t)
                   /\ SubSeq(t, i, i + Len(tok) - 1) = tok}
    IN  IF hit = {} THEN 0 ELSE i + Len(CHOOSE tok \in hit : TRUE)

\* a match: t[lo..hi-1] is the match, t[ds..de-1] the digit-run group
NoMatch == [lo |-> 0, hi |-> 0, ds |-> 0, de |-> 0]

\* pattern k matched at index i (re's match at one position)
MatchAt(k, t, i) ==
    IF PatIsPrefix(k)
    THEN LET te == TokenEnd(k, t, i)
             s  == SkipSpaces(t, te)
             ends == IF te = 0 THEN <<>> ELSE NumEnds(t, s, PatSeps(k))
         IN  IF ends = <<>> THEN NoMatch
             ELSE [lo |-> i, hi |-> ends[1], ds |-> s, de |-> ends[1]]
    ELSE LET ends == NumEnds(t, i, PatSeps(k))
             ok == {x \in 1..Len(ends) :
                       TokenEnd(k, t, SkipSpaces(t, ends[x])) # 0}
         IN  IF ok = {} THEN NoMatch
             ELSE LET x == CHOOSE y \in ok : \A z \in ok : y <= z
                  IN  [lo |-> i, hi |-> TokenEnd(k, t, SkipSpaces(t, ends[x])),
                       ds |-> i, de |-> ends[x]]

\* the non-overlapping matches of pattern k in t from index i on, left to
\* right (re's scan: after a match the search resumes at its end)
RECURSIVE Matches(_, _, _)
Matches(k, t, i) ==
    IF i > Len(t) THEN <<>>
    ELSE LET m == MatchAt(k, t, i)
         IN  IF m.hi # 0 THEN <<m>> \o Matches(k, t, m.hi)
             ELSE Matches(k, t, i + 1)

\* the value of a run of at most four digit characters
RECURSIVE DecValue(_)
DecValue(ds) ==
    IF ds = <<>> THEN 0
    ELSE 10 * DecValue(SubSeq(ds, 1, Len(ds) - 1)) + (ds[Len(ds)] - 48)

\* int() of a digit string, as limbs
RECURSIVE ToLimbs(_)
ToLimbs(ds) ==
    IF ds = <<>> THEN <<>>
    ELSE LET n == Len(ds)
             w == Min(4, n)
         IN  <<DecValue(SubSeq(ds, n - w + 1, n))>> \o ToLimbs(SubSeq(ds, 1, n - w))

\* int(re.sub(r"[^\d]", "", s))
_digits_to_int(s) == Canon(ToLimbs(SelectSeq(s, IsDigit)))

\* the currency words: U+5186 (yen), U+30C9 U+30F3 (dong)
\* yen_symbol_sub moving the sign only: the digits stay, the yen word follows
yen_symbol_sub_KeepDigits(g) == g \o <<20870>>

yen_symbol_sub(g) == num_to_kanji(_digits_to_int(g)) \o <<20870>>
yen_after_sub(g)  == num_to_kanji(_digits_to_int(g)) \o <<20870>>
vnd_prefix_sub(g) == num_to_kanji(_digits_to_int(g)) \o <<12489, 12531>>
vnd_after_sub(g)  == num_to_kanji(_digits_to_int(g)) \o <<12489, 12531>>
dong_prefix(g)    == num_to_kanji(_digits_to_int(g)) \o <<12489, 12531>>
dong_after(g)     == num_to_kanji(_digits_to_int(g)) \o <<12489, 12531>>

\* the replacement function lines 119-124 pair with pattern k, applied to
\* the digit-run group of a match
PatRepl(k, g) ==
    CASE k = 0 -> yen_symbol_sub(g)
      [] k = 1 -> yen_after_sub(g)
      [] k = 2 -> vnd_prefix_sub(g)
      [] k = 3 -> vnd_after_sub(g)
      [] k = 4 -> dong_prefix(g)
      [] OTHER -> dong_after(g)

\* _price_patterns[k].sub(repl, t), from index i on
RECURSIVE sub_from(_, _, _)
sub_from(k, t, i) ==
    IF i > Len(t) THEN <<>>
    ELSE LET m == MatchAt(k, t, i)
         IN  IF m.hi # 0
             THEN PatRepl(k, SubSeq(t, m.ds, m.de - 1)) \o sub_from(k, t, m.hi)
             ELSE <<t[i]>> \o sub_from(k, t, i + 1)

pattern_sub(k, t) == sub_from(k, t, 1)

convert_prices_to_kanji(text) ==
    pattern_sub(5, pattern_sub(4, pattern_sub(3,
        pattern_sub(2, pattern_sub(1, pattern_sub(0, text))))))

(***************************************************************************)
(* SpecPrice: convert_prices_to_kanji, one action per rewriting pass.      *)
(***************************************************************************)
\* a text is at most MaxPieces pieces, one after the other
MaxPieces == 3

\* 10^16 written out: a digit run of 17 digits, one group beyond _UNIT4
BigRun == <<49, 48, 48, 48, 48, 48, 48, 48, 48, 48, 48, 48, 48, 48, 48, 48, 48>>

\* the yen sign, U+5186, "VND", "vnd", "Vnd", the dong sign, d with stroke,
\* a space, "x", and the digit runs 0, 7, 12,000, 1.000 and 10^16
Pieces ==
    { <<165>>, <<20870>>, <<86, 78, 68>>, <<118, 110, 100>>, <<86, 110, 100>>,
      <<8363>>, <<273>>, <<32>>, <<120>>,
      <<48>>, <<55>>, <<49, 50, 44, 48, 48, 48>>, <<49, 46, 48, 48, 48>>, BigRun }

PriceInputs == {Concat(ps) : ps \in SeqsUpTo(Pieces, MaxPieces)}

InitPrice ==
    /\ p_pc = 0
    /\ p_in \in PriceInputs
    /\ p_prev = p_in
    /\ p_text = p_in
    /\ KanjiIdle
    /\ TextIdle
    /\ WebIdle

\* text = _price_patterns[k].sub(<replacement function k>, text)
ApplyPass(k) ==
    /\ p_prev' = p_text
    /\ p_text' = pattern_sub(k, p_text)
    /\ p_pc' = k + 1
    /\ UNCHANGED <<p_in, kanjiVars, textVars, webVars>>

\* line 119: the yen sign before the amount
Pass0 ==
    /\ p_pc = 0
    /\ ApplyPass(0)

\* line 120: the yen word after the amount
Pass1 ==
    /\ p_pc = 1
    /\ ApplyPass(1)

\* line 121: VND before the amount
Pass2 ==
    /\ p_pc = 2
    /\ ApplyPass(2)

\* line 122: VND after the amount
Pass3 ==
    /\ p_pc = 3
    /\ ApplyPass(3)

\* line 123: a dong sign before the amount
Pass4 ==
    /\ p_pc = 4
    /\ ApplyPass(4)

\* line 124: a dong sign after the amount
Pass5 ==
    /\ p_pc = 5
    /\ ApplyPass(5)

NextPrice == Pass0 \/ Pass1 \/ Pass2 \/ Pass3 \/ Pass4 \/ Pass5

SpecPrice == InitPrice /\ [][NextPrice]_vars

\* convert_prices_to_kanji has returned p_text
PriceDone == p_pc = 6

(***************************************************************************)
(* What section 4.1 of the specification calls a currency amount, stated   *)
(* on whole strings (no search order): the six patterns, VND in any        *)
(* letter case, and the numeral and currency word an amount is to become.  *)
(***************************************************************************)
\* the myriad units beyond _UNIT4, for digit runs of more than 16 digits:
\* U+4EAC (10^16), U+5793, U+79ED, U+7A63, U+6E9D, U+6F97, U+6B63, U+8F09,
\* U+6975, then the multi-character units up to 10^68
StdMyriadLong ==
    StdMyriad \o << <<22419>>, <<31213>>, <<31331>>, <<28317>>, <<28567>>,
                    <<27491>>, <<36617>>, <<26997>>,
                    <<24658, 27827, 27801>>, <<38463, 20711, 31047>>,
                    <<37027, 30001, 20182>>,
                    <<19981, 21487, 24605, 35696>>,
                    <<28961, 37327, 22823, 25968>> >>

RECURSIVE StdGroupsLong(_, _)
StdGroupsLong(num, j) ==
    IF j = 0 THEN <<>>
    ELSE (IF num[j] = 0 THEN <<>>
          ELSE StdGroup(num[j]) \o StdMyriadLong[Min(j, Len(StdMyriadLong))])
             \o StdGroupsLong(num, j - 1)

\* the standard numeral of an integer of any size the model writes
StdNumeralLong(num) ==
    IF num = <<>> THEN StdZero ELSE StdGroupsLong(num, Len(num))

\* every letter-case variant of "VND"
VndVariants ==
    {<<a, b, c>> : a \in {86, 118}, b \in {78, 110}, c \in {68, 100}}

ClaimToken(k) ==
    CASE k = 0 -> { <<165>> }
      [] k = 1 -> { <<20870>> }
      [] k \in {2, 3} -> VndVariants
      [] OTHER -> { <<8363>>, <<273>> }

\* yen for the two yen patterns, dong for the four others
ClaimWord(k) == IF k \in {0, 1} THEN <<20870>> ELSE <<12489, 12531>>

AllDigits(s) == \A i \in 1..Len(s) : IsDigit(s[i])

\* s is a digit run: unbroken, or 1-3 digits and groups of a separator and
\* three digits
IsNum(s, seps) ==
    /\ Len(s) >= 1
    /\ \/ AllDigits(s)
       \/ \E n \in 1..3 :
             /\ n < Len(s)
             /\ (Len(s) - n) % 4 = 0
             /\ \A j \in 1..Len(s) :
                   IF j > n /\ (j - n) % 4 = 1 THEN s[j] \in seps
                   ELSE IsDigit(s[j])

RECURSIVE StripLeft(_)
StripLeft(s) ==
    IF s # <<>> /\ IsSpace(s[1]) THEN StripLeft(Tail(s)) ELSE s

RECURSIVE StripRight(_)
StripRight(s) ==
    IF s # <<>> /\ IsSpace(s[Len(s)])
    THEN StripRight(SubSeq(s, 1, Len(s) - 1)) ELSE s

\* the digit run of s read as an amount of pattern k, <<>> when s is none
AmountNum(k, s) ==
    LET n == IF k \in {0, 1, 4, 5} THEN 1 ELSE 3
        num == IF Len(s) <= n THEN <<>>
               ELSE IF PatIsPrefix(k)
                    THEN IF SubSeq(s, 1, n) \in ClaimToken(k)
                         THEN StripLeft(SubSeq(s, n + 1, Len(s))) ELSE <<>>
                    ELSE IF SubSeq(s, Len(s) - n + 1, Len(s)) \in ClaimToken(k)
                         THEN StripRight(SubSeq(s, 1, Len(s) - n)) ELSE <<>>
    IN  IF IsNum(num, PatSeps(k)) THEN num ELSE <<>>

IsAmount(k, s) == AmountNum(k, s) # <<>>

\* some substring of t is a currency amount
HasAmount(t) ==
    \E i \in 1..Len(t) : \E j \in i..Len(t) : \E k \in 0..5 :
        IsAmount(k, SubSeq(t, i, j))

\* what an amount is to be replaced by
ClaimReplacement(k, s) ==
    StdNumeralLong(Canon(ToLimbs(SelectSeq(AmountNum(k, s), IsDigit))))
        \o ClaimWord(k)

IsPrefixAt(r, out, j) ==
    /\ j + Len(r) - 1 <= Len(out)
    /\ SubSeq(out, j, j + Len(r) - 1) = r

\* out (from index j) is t (from index i) with some disjoint amounts
\* replaced by their numeral and currency word, and every other character
\* kept, in order
RECURSIVE Rewrites(_, _, _, _)
Rewrites(t, i, out, j) ==
    IF i > Len(t) THEN j > Len(out)
    ELSE \/ /\ j <= Len(out)
            /\ t[i] = out[j]
            /\ Rewrites(t, i + 1, out, j + 1)
         \/ \E e \in i..Len(t) : \E k \in 0..5 :
               /\ IsAmount(k, SubSeq(t, i, e))
               /\ IsPrefixAt(ClaimReplacement(k, SubSeq(t, i, e)), out, j)
               /\ Rewrites(t, e + 1, out,
                           j + Len(ClaimReplacement(k, SubSeq(t, i, e))))

\* C2: convert_prices_to_kanji replaces every amount matching one of the
\* six patterns by the kanji numeral of its digit run directly followed by
\* its currency word and keeps every other character, in order: the result
\* is the input with disjoint amounts so replaced, no amount is left in it,
\* and a text without any amount is returned as it is.
C2_EveryAmountRewritten ==
    PriceDone =>
        /\ Rewrites(p_in, 1, p_text, 1)
        /\ ~HasAmount(p_text)
        /\ (~HasAmount(p_in) => p_text = p_in)

\* pass k applied to t from index i on as section 7 of the specification
\* wants it: a match whose value needs more groups than _UNIT4 has is left
\* as it is, every other match becomes its numeral and currency word
RECURSIVE SubLeavingOutOfRange(_, _, _)
SubLeavingOutOfRange(k, t, i) ==
    IF i > Len(t) THEN <<>>
    ELSE LET m == MatchAt(k, t, i)
             n == _digits_to_int(SubSeq(t, m.ds, m.de - 1))
         IN  IF m.hi = 0 THEN <<t[i]>> \o SubLeavingOutOfRange(k, t, i + 1)
             ELSE (IF Len(n) > Len(UNIT4) THEN SubSeq(t, m.lo, m.hi - 1)
                   ELSE StdNumeral(n) \o ClaimWord(k))
                      \o SubLeavingOutOfRange(k, t, m.hi)

\* C3: a matched amount of 10^16 or more is left unmodified by the pass
\* that matches it, every other amount of the text is still rewritten, and
\* no numeral of another value than the digit run is emitted.
C3_OutOfRangeLeftUnmodified ==
    p_pc >= 1 => p_text = SubLeavingOutOfRange(p_pc - 1, p_prev, 1)

\* C4: for every letter-case variant of VND, a digit run directly after it
\* or directly before it is replaced by its kanji numeral followed by the
\* dong word.
C4_VndAnyCase ==
    \A k \in {2, 3} :
        (/\ PriceDone
         /\ IsAmount(k, p_in)
         /\ Len(p_in) = 3 + Len(AmountNum(k, p_in))
         /\ Len(_digits_to_int(AmountNum(k, p_in))) <= Len(UNIT4))
        => p_text = ClaimReplacement(k, p_in)

(***************************************************************************)
(* The six passes as one sweep over the argument: the text is kept as      *)
(* segments, a segment being either a stretch of the argument not yet      *)
(* matched or the replacement of a match; pass k searches the unmatched    *)
(* stretches only, each on its own, and never looks at a replacement.      *)
(***************************************************************************)
\* the segments of the unmatched stretch s under pattern k, searching from
\* index i on; lo is where the literal part not yet emitted starts
RECURSIVE SplitStretch(_, _, _, _)
SplitStretch(k, s, i, lo) ==
    IF i > Len(s)
    THEN IF lo <= Len(s)
         THEN << [gen |-> FALSE, s |-> SubSeq(s, lo, Len(s))] >>
         ELSE <<>>
    ELSE LET m == MatchAt(k, s, i)
         IN  IF m.hi # 0
             THEN (IF lo < i
                   THEN << [gen |-> FALSE, s |-> SubSeq(s, lo, i - 1)] >>
                   ELSE <<>>)
                  \o << [gen |-> TRUE,
                         s |-> PatRepl(k, SubSeq(s, m.ds, m.de - 1))] >>
                  \o SplitStretch(k, s, m.hi, m.hi)
             ELSE SplitStretch(k, s, i + 1, lo)

SweepPass(k, segs) ==
    Concat([x \in 1..Len(segs) |->
               IF segs[x].gen THEN << segs[x] >>
               ELSE SplitStretch(k, segs[x].s, 1, 1)])

\* the segments after the first n patterns
RECURSIVE Sweep(_, _)
Sweep(n, t) ==
    IF n = 0 THEN << [gen |-> FALSE, s |-> t] >>
    ELSE SweepPass(n - 1, Sweep(n - 1, t))

Flatten(segs) == Concat([x \in 1..Len(segs) |-> segs[x].s])

\* for every character of Flatten(segs): is it part of a replacement
GenMask(segs) ==
    Concat([x \in 1..Len(segs) |-> [y \in 1..Len(segs[x].s) |-> segs[x].gen]])

(***************************************************************************)
(* SpecSweep: the six passes over texts of a smaller alphabet, one piece   *)
(* longer than those of SpecPrice, so that two amounts of different        *)
(* patterns stand side by side.                                            *)
(***************************************************************************)
MaxSweepPieces == 4

\* the yen sign, U+5186, "VND", the dong sign, a space, 0, 7 and ",000"
SweepPieces ==
    { <<165>>, <<20870>>, <<86, 78, 68>>, <<8363>>, <<32>>, <<48>>, <<55>>,
      <<44, 48, 48, 48>> }

SweepInputs == {Concat(ps) : ps \in SeqsUpTo(SweepPieces, MaxSweepPieces)}

InitSweep ==
    /\ p_pc = 0
    /\ p_in \in SweepInputs
    /\ p_prev = p_in
    /\ p_text = p_in
    /\ KanjiIdle
    /\ TextIdle
    /\ WebIdle

SpecSweep == InitSweep /\ [][NextPrice]_vars

\* C13: after any number of passes the text is the argument with each
\* match substituted once (the sweep that never searches a replacement),
\* and no match of the pass about to run contains a character of a
\* replacement an earlier pass wrote.
C13_NoReentry ==
    LET segs == Sweep(p_pc, p_in)
        mask == GenMask(segs)
        ms   == IF p_pc <= 5 THEN Matches(p_pc, p_text, 1) ELSE <<>>
    IN  /\ p_text = Flatten(segs)
        /\ \A x \in 1..Len(ms) : \A j \in ms[x].lo..(ms[x].hi - 1) : ~mask[j]

\* the yen sign pass has substituted the second amount of
\* "7(yen word)(yen sign)0" and the yen word pass the first
C13_Witness ==
    /\ p_pc = 6
    /\ p_in = <<55, 20870, 165, 48>>
    /\ p_text = <<19971, 20870, 38646, 20870>>

(***************************************************************************)
(* Hiragana and romaji (lines 65-71, 127-154).                             *)
(*                                                                         *)
(* A token of the tokenizer is a record: surf is t.surface(), pos0 is      *)
(* t.part_of_speech()[0] and yomi is t.reading_form().                     *)
(***************************************************************************)
\* part-of-speech names of the tokenizer: U+8A18 U+53F7 (symbol),
\* U+88DC U+52A9 U+8A18 U+53F7 (supplementary symbol), U+540D U+8A5E (noun),
\* U+52D5 U+8A5E (verb), U+52A9 U+52D5 U+8A5E (auxiliary verb),
\* U+7A7A U+767D (whitespace)
PosSymbol     == <<35352, 21495>>
PosSuppSymbol == <<35036, 21161, 35352, 21495>>
PosNoun       == <<21517, 35422>>
PosVerb       == <<21205, 35422>>
PosAuxVerb    == <<21161, 21205, 35422>>
PosWhitespace == <<31354, 30333>>

\* _katakana_to_hira: every code point of U+30A1..U+30F6 moves down by 0x60
katakana_to_hira(c) == IF c \in 12449..12534 THEN c - 96 ELSE c

\* str.translate(_katakana_to_hira)
translate(s) == [i \in 1..Len(s) |-> katakana_to_hira(s[i])]

\* re.fullmatch(r"[0-9A-Za-z]+", surf)
IsAsciiAlnum(surf) ==
    /\ surf # <<>>
    /\ \A i \in 1..Len(surf) : surf[i] \in (48..57) \cup (65..90) \cup (97..122)

\* the mutant: the part-of-speech test of line 136 is missing
token_word_NoSymbolTest(t) ==
    IF IsAsciiAlnum(t.surf) THEN t.surf
    ELSE IF t.yomi = <<42>> THEN t.surf ELSE translate(t.yomi)

\* one turn of the for loop: what is appended to words for token t
token_word(t) ==
    IF t.pos0 \in {PosSymbol, PosSuppSymbol} THEN t.surf
    ELSE IF IsAsciiAlnum(t.surf) THEN t.surf
    ELSE IF t.yomi = <<42>> THEN t.surf         \* yomi == "*"
    ELSE translate(t.yomi)

\* the list words after the loop
to_hiragana_words(toks) == [i \in 1..Len(toks) |-> token_word(toks[i])]

RECURSIVE Join(_, _)
\* sep.join(parts)
Join(sep, parts) ==
    IF parts = <<>> THEN <<>>
    ELSE IF Len(parts) = 1 THEN parts[1]
    ELSE parts[1] \o sep \o Join(sep, Tail(parts))

\* to_hiragana, from the tokens of the price-converted text on
to_hiragana(toks, sp) ==
    IF sp THEN Join(<<32>>, to_hiragana_words(toks))
    ELSE Join(<<>>, to_hiragana_words(toks))

RECURSIVE split(_, _)
\* s.split(" "): the pieces between single spaces, empty ones included
split(s, cur) ==
    IF s = <<>> THEN <<cur>>
    ELSE IF Head(s) = 32 THEN <<cur>> \o split(Tail(s), <<>>)
    ELSE split(Tail(s), cur \o <<Head(s)>>)

\* the hiragana syllabary U+3041..U+3096 and the long-vowel mark U+30FC
IsHiragana(c) == c \in (12353..12438) \cup {12540}

\* the hiragana -> Latin table of the converter, on the hiragana of the
\* model's tokens: u e ka ki go ko su ta na ne be ma n -
HiraToLatin(c) ==
    CASE c = 12358 -> <<117>>
      [] c = 12360 -> <<101>>
      [] c = 12363 -> <<107, 97>>
      [] c = 12365 -> <<107, 105>>
      [] c = 12372 -> <<103, 111>>
      [] c = 12371 -> <<107, 111>>
      [] c = 12377 -> <<115, 117>>
      [] c = 12383 -> <<116, 97>>
      [] c = 12394 -> <<110, 97>>
      [] c = 12397 -> <<110, 101>>
      [] c = 12409 -> <<98, 101>>
      [] c = 12414 -> <<109, 97>>
      [] c = 12435 -> <<110>>
      [] c = 12540 -> <<45>>
      [] OTHER -> <<c>>

RECURSIVE converter_roma_do(_)
\* _converter_roma.do(p): hiragana by the table, anything else copied
converter_roma_do(p) ==
    IF p = <<>> THEN <<>>
    ELSE (IF IsHiragana(Head(p)) THEN HiraToLatin(Head(p)) ELSE <<Head(p)>>)
             \o converter_roma_do(Tail(p))

\* the mutant: the empty pieces of the split are kept
to_romaji_KeepEmpty(toks, sp) ==
    LET h == to_hiragana(toks, TRUE)
        parts == split(h, <<>>)
        roma_parts == [i \in 1..Len(parts) |-> converter_roma_do(parts[i])]
    IN  IF sp THEN Join(<<32>>, roma_parts) ELSE Join(<<>>, roma_parts)

to_romaji(toks, sp) ==
    LET h == to_hiragana(toks, TRUE)
        parts == SelectSeq(split(h, <<>>), LAMBDA q : q # <<>>)
        roma_parts == [i \in 1..Len(parts) |-> converter_roma_do(parts[i])]
    IN  IF sp THEN Join(<<32>>, roma_parts) ELSE Join(<<>>, roma_parts)

(***************************************************************************)
(* Spec: to_hiragana and to_romaji applied to bounded token streams.       *)
(***************************************************************************)
\* a token stream holds at most MaxTokens tokens
MaxTokens == 3

Tok(s, p, y) == [surf |-> s, pos0 |-> p, yomi |-> y]

\* the reading the dictionary gives symbols: U+30AD U+30B4 U+30A6
LabelReading == <<12461, 12468, 12454>>

\* a noun, a verb stem, an auxiliary verb, a full stop, "!", a music note,
\* a space with the unknown sentinel as reading, a space read as a symbol,
\* "A1", a noun with the unknown sentinel as reading, an out-of-vocabulary
\* noun with an empty reading, a katakana noun with a long-vowel mark, "7",
\* the yen word
TokenUniverse ==
    { Tok(<<29483>>, PosNoun, <<12493, 12467>>),
      Tok(<<39135, 12409>>, PosVerb, <<12479, 12505>>),
      Tok(<<12414, 12377>>, PosAuxVerb, <<12510, 12473>>),
      Tok(<<12290>>, PosSuppSymbol, LabelReading),
      Tok(<<33>>, PosSuppSymbol, LabelReading),
      Tok(<<9834>>, PosSymbol, LabelReading),
      Tok(<<32>>, PosWhitespace, <<42>>),
      Tok(<<32>>, PosWhitespace, LabelReading),
      Tok(<<65, 49>>, PosNoun, <<12456, 12540>>),
      Tok(<<35598>>, PosNoun, <<42>>),
      Tok(<<12535>>, PosNoun, <<>>),
      Tok(<<12459, 12540>>, PosNoun, <<12459, 12540>>),
      Tok(<<55>>, PosNoun, <<12490, 12490>>),
      Tok(<<20870>>, PosNoun, <<12456, 12531>>) }

\* the text the tokens cover
SurfaceText(toks) == Concat([i \in 1..Len(toks) |-> toks[i].surf])

\* line 128 hands the tokenizer a price-converted text: the streams are
\* those of texts convert_prices_to_kanji returns
TokenStreams ==
    {ts \in SeqsUpTo(TokenUniverse, MaxTokens) :
        convert_prices_to_kanji(SurfaceText(ts)) = SurfaceText(ts)}

Init ==
    /\ t_pc = "call"
    /\ tokens \in TokenStreams
    /\ spaced \in BOOLEAN
    /\ words = <<>>
    /\ hira = <<>>
    /\ roma = <<>>
    /\ KanjiIdle
    /\ PriceIdle
    /\ WebIdle

\* to_hiragana(text, spaced)
ToHiragana ==
    /\ t_pc = "call"
    /\ words' = to_hiragana_words(tokens)
    /\ hira' = to_hiragana(tokens, spaced)
    /\ t_pc' = "hira"
    /\ UNCHANGED <<tokens, spaced, roma, kanjiVars, priceVars, webVars>>

\* to_romaji(text, spaced); hira is its local spaced hiragana string
ToRomaji ==
    /\ t_pc = "call"
    /\ words' = to_hiragana_words(tokens)
    /\ hira' = to_hiragana(tokens, TRUE)
    /\ roma' = to_romaji(tokens, spaced)
    /\ t_pc' = "roma"
    /\ UNCHANGED <<tokens, spaced, kanjiVars, priceVars, webVars>>

Next == ToHiragana \/ ToRomaji

Spec == Init /\ [][Next]_vars

(***************************************************************************)
(* Properties of to_hiragana and to_romaji.                                *)
(***************************************************************************)
\* a pure-whitespace token
IsWhitespaceToken(t) == \A i \in 1..Len(t.surf) : IsSpace(t.surf[i])

\* a symbol/punctuation token
IsSymbolToken(t) == t.pos0 \in {PosSymbol, PosSuppSymbol}

\* an auxiliary-continuation token
IsAuxToken(t) == t.pos0 = PosAuxVerb

\* a content token: one that starts a chunk
IsContentToken(t) ==
    ~IsWhitespaceToken(t) /\ ~IsSymbolToken(t) /\ ~IsAuxToken(t)

\* the hiragana letter of a katakana letter, from the code charts, for the
\* letters the readings of TokenUniverse use; anything else stays
HiraganaOf(c) ==
    CASE c = 12454 -> 12358     \* U+30A6 -> U+3046  u
      [] c = 12456 -> 12360     \* U+30A8 -> U+3048  e
      [] c = 12459 -> 12363     \* U+30AB -> U+304B  ka
      [] c = 12461 -> 12365     \* U+30AD -> U+304D  ki
      [] c = 12468 -> 12372     \* U+30B4 -> U+3054  go
      [] c = 12467 -> 12371     \* U+30B3 -> U+3053  ko
      [] c = 12473 -> 12377     \* U+30B9 -> U+3059  su
      [] c = 12479 -> 12383     \* U+30BF -> U+305F  ta
      [] c = 12490 -> 12394     \* U+30CA -> U+306A  na
      [] c = 12493 -> 12397     \* U+30CD -> U+306D  ne
      [] c = 12505 -> 12409     \* U+30D9 -> U+3079  be
      [] c = 12510 -> 12414     \* U+30DE -> U+307E  ma
      [] c = 12531 -> 12435     \* U+30F3 -> U+3093  n
      [] OTHER -> c

\* the content section 4.3 step 4 gives a non-whitespace token
ClaimContent(t) ==
    IF IsSymbolToken(t) THEN t.surf
    ELSE IF IsAsciiAlnum(t.surf) THEN t.surf
    ELSE IF t.yomi = <<42>> THEN t.surf
    ELSE [i \in 1..Len(t.yomi) |-> HiraganaOf(t.yomi[i])]

\* the contents of the non-whitespace tokens, in token order, concatenated
RECURSIVE ContentOf(_)
ContentOf(toks) ==
    IF toks = <<>> THEN <<>>
    ELSE (IF IsWhitespaceToken(Head(toks)) THEN <<>>
          ELSE ClaimContent(Head(toks))) \o ContentOf(Tail(toks))

\* terminal punctuation: U+3001 U+3002 U+FF01 U+FF1F ! ?
TerminalPunct == {12289, 12290, 65281, 65311, 33, 63}

\* C5: the spaced-mode output of to_hiragana has no two consecutive
\* whitespace characters and no space right before a terminal punctuation
\* mark.
C5_SpacedOutputNormalised ==
    (t_pc = "hira" /\ spaced) =>
        \A i \in 1..(Len(hira) - 1) :
            /\ ~(IsSpace(hira[i]) /\ IsSpace(hira[i + 1]))
            /\ ~(IsSpace(hira[i]) /\ hira[i + 1] \in TerminalPunct)

\* C6: a content token followed by k >= 1 auxiliary-continuation tokens
\* (whitespace tokens interleaved) is one chunk: in spaced mode the
\* contents of the k+1 tokens are written with no separator between them.
C6_AuxiliaryMerged ==
    (/\ t_pc = "hira" /\ spaced
     /\ Len(tokens) >= 2
     /\ IsContentToken(tokens[1])
     /\ \A i \in 2..Len(tokens) :
           IsAuxToken(tokens[i]) \/ IsWhitespaceToken(tokens[i])
     /\ \E i \in 2..Len(tokens) : IsAuxToken(tokens[i]))
    => hira = ContentOf(tokens)

\* C7: for every non-whitespace token to_hiragana emits the surface when
\* the token is a symbol/punctuation (never its reading, a descriptive
\* label), the surface when it is one or more ASCII letters/digits, the
\* surface when the reading is the unknown sentinel, and else the reading
\* with every katakana letter replaced by its hiragana letter.
C7_TokenContent ==
    t_pc # "call" =>
        /\ Len(words) = Len(tokens)
        /\ \A i \in 1..Len(tokens) :
              ~IsWhitespaceToken(tokens[i]) => words[i] = ClaimContent(tokens[i])

\* a noun read in katakana and a full stop whose reading is a label
C7_Witness ==
    /\ t_pc = "hira"
    /\ tokens = << Tok(<<29483>>, PosNoun, <<12493, 12467>>),
                   Tok(<<12290>>, PosSuppSymbol, LabelReading) >>
    /\ words = << <<12397, 12371>>, <<12290>> >>

\* s with every run of whitespace replaced by one space
RECURSIVE CollapseWhitespace(_)
CollapseWhitespace(s) ==
    IF s = <<>> THEN <<>>
    ELSE IF IsSpace(Head(s))
         THEN <<32>> \o CollapseWhitespace(StripLeft(s))
         ELSE <<Head(s)>> \o CollapseWhitespace(Tail(s))

\* ASCII letters, digits, punctuation and whitespace only
IsAsciiText(s) == \A i \in 1..Len(s) : s[i] \in (32..126) \cup {9, 10}

\* C8: for an input of ASCII letters, digits, punctuation and whitespace
\* only, with no currency amount, to_hiragana and to_romaji return the
\* input with its whitespace runs collapsed to single spaces.
C8_AsciiIdentity ==
    (IsAsciiText(SurfaceText(tokens)) /\ ~HasAmount(SurfaceText(tokens))) =>
        /\ t_pc = "hira" => hira = CollapseWhitespace(SurfaceText(tokens))
        /\ t_pc = "roma" => roma = CollapseWhitespace(SurfaceText(tokens))

\* C9: the output of to_hiragana without its spacing separators is the
\* concatenation, in token order, of the content of each non-whitespace
\* token, once each; a whitespace token adds nothing of its own (nothing at
\* all in compact mode).
C9_ContentConserved ==
    t_pc = "hira" =>
        IF spaced
        THEN SelectSeq(hira, LAMBDA c : ~IsSpace(c)) = ContentOf(tokens)
        ELSE hira = ContentOf(tokens)

RECURSIVE DropLeadingSpaces(_)
DropLeadingSpaces(s) ==
    IF s # <<>> /\ Head(s) = 32 THEN DropLeadingSpaces(Tail(s)) ELSE s

RECURSIVE ReduceFrom(_, _, _)
\* pending: a space was passed since the last character that was written
ReduceFrom(s, sp, pending) ==
    IF s = <<>> THEN <<>>
    ELSE IF Head(s) = 32 THEN ReduceFrom(Tail(s), sp, TRUE)
    ELSE (IF sp /\ pending THEN <<32>> ELSE <<>>)
             \o <<Head(s)>> \o ReduceFrom(Tail(s), sp, FALSE)

\* s with its runs of ASCII spaces reduced: to one space, none at the ends
\* (spaced), or to nothing (compact)
ReduceSpaces(s, sp) == ReduceFrom(DropLeadingSpaces(s), sp, FALSE)

\* C10 as stated: to_romaji replaces each hiragana character of the
\* spaced hiragana string by its table entry and copies every other
\* character, a space included, unchanged and in place.
C10_EveryOtherCharacterCopied ==
    t_pc = "roma" => roma = converter_roma_do(hira)

\* C10, amended: to_romaji replaces each hiragana character (long-vowel
\* mark included) of the spaced hiragana string by its table entry and
\* copies every other character except the ASCII space unchanged and in
\* order; the spaces are not copied: a run of them between two written
\* characters becomes one space in spaced mode and nothing in compact mode,
\* and those at the ends are dropped.  No hiragana character remains.
C10_RomajiPerCharacter ==
    t_pc = "roma" =>
        /\ roma = ReduceSpaces(converter_roma_do(hira), spaced)
        /\ \A i \in 1..Len(roma) : ~IsHiragana(roma[i])

\* a noun, a space and the ASCII run A1: the run is copied, the three
\* spaces of the hiragana string become one
C10_Witness ==
    /\ t_pc = "roma"
    /\ spaced
    /\ hira = <<12397, 12371, 32, 32, 32, 65, 49>>
    /\ roma = <<110, 101, 107, 111, 32, 65, 49>>

(***************************************************************************)
(* The webhook (lines 25-59, 157-186, 212-467): strings read by the        *)
(* handler are sequences of code points; texts the handler only passes on  *)
(* (questions, explanations) are TLA+ strings.                             *)
(***************************************************************************)
\* str.strip(): the string without its leading and trailing whitespace
RECURSIVE strip_right(_)
strip_right(s) ==
    IF s # <<>> /\ IsSpace(s[Len(s)]) THEN strip_right(SubSeq(s, 1, Len(s) - 1))
    ELSE s

strip(s) == strip_right(SubSeq(s, SkipSpaces(s, 1), Len(s)))

\* the capital letters of vi_chars outside Latin-1; their small letter is
\* the next code point
ViUpperExt ==
    {
      258, 272, 296, 360, 416, 431, 7840, 7842, 7844, 7846, 7848, 7850,
      7852, 7854, 7856, 7858, 7860, 7862, 7864, 7866, 7868, 7870, 7872,
      7874, 7876, 7878, 7880, 7882, 7884, 7886, 7888, 7890, 7892, 7894,
      7896, 7898, 7900, 7902, 7904, 7906, 7908, 7910, 7912, 7914, 7916,
      7918, 7920, 7922, 7924, 7926, 7928 }

\* str.lower() of one character: ASCII and Latin-1 capitals are 32 below
\* their small letter
lower_char(c) ==
    IF c \in 65..90 \/ c \in (192..222) \ {215} THEN c + 32
    ELSE IF c \in ViUpperExt THEN c + 1
    ELSE c

lower(s) == [i \in 1..Len(s) |-> lower_char(s[i])]

\* s.startswith(p)
startswith(s, p) == Len(s) >= Len(p) /\ SubSeq(s, 1, Len(p)) = p

\* str.split(): the maximal runs of non-whitespace characters of s, from
\* index i on; cur is the run being read
RECURSIVE split_ws(_, _, _)
split_ws(s, i, cur) ==
    IF i > Len(s) THEN (IF cur = <<>> THEN <<>> ELSE <<cur>>)
    ELSE IF IsSpace(s[i])
         THEN (IF cur = <<>> THEN <<>> ELSE <<cur>>) \o split_ws(s, i + 1, <<>>)
         ELSE split_ws(s, i + 1, Append(cur, s[i]))

\* the letters of a language code of TAG_PREFIX_RE, in either case
IsLangCode(a, b) ==
    <<lower_char(a), lower_char(b)>> \in
        { <<106, 112>>, <<118, 110>>, <<106, 97>>, <<118, 105>> }

\* TAG_PREFIX_RE.match(t): the index after the match, 0 without a match.
\* "[", \s*, a code, \s*, "-" or U+2192, \s*, a code, \s*, "]", \s*
TagPrefixEnd(t) ==
    LET a == SkipSpaces(t, 2)
        b == SkipSpaces(t, a + 2)
        c == SkipSpaces(t, b + 1)
        d == SkipSpaces(t, c + 2)
    IN  IF /\ Len(t) >= 1 /\ t[1] = 91
           /\ a + 1 <= Len(t) /\ IsLangCode(t[a], t[a + 1])
           /\ b <= Len(t) /\ t[b] \in {45, 8594}
           /\ c + 1 <= Len(t) /\ IsLangCode(t[c], t[c + 1])
           /\ d <= Len(t) /\ t[d] = 93
        THEN SkipSpaces(t, d + 1)
        ELSE 0

\* TAG_PREFIX_RE.sub("", t, count=1)
tag_prefix_sub(t) ==
    IF TagPrefixEnd(t) = 0 THEN t ELSE SubSeq(t, TagPrefixEnd(t), Len(t))

\* re.match(r"^/(NAME|N)\s+(on|off)$", tl) for the two spellings names of
\* the command: <<matched, group 2 is "on">>
on_off_match(tl, names) ==
    LET hit == {n \in names :
                   /\ startswith(tl, n)
                   /\ SkipSpaces(tl, Len(n) + 1) > Len(n) + 1
                   /\ SubSeq(tl, SkipSpaces(tl, Len(n) + 1), Len(tl))
                          \in { <<111, 110>>, <<111, 102, 102>> }}
    IN  IF hit = {} THEN <<FALSE, FALSE>>
        ELSE LET n == CHOOSE x \in hit : TRUE
             IN  <<TRUE, SubSeq(tl, SkipSpaces(tl, Len(n) + 1), Len(tl)) = <<111, 110>>>>

NoVal == "None"

\* parse_command(text): the pair (cmd, val) as a record
parse_command(text) ==
    LET t  == strip(text)
        tl == lower(t)
        h  == on_off_match(tl, { <<47, 104, 105, 114, 97>>, <<47, 104>> })
        r  == on_off_match(tl, { <<47, 114, 111, 109, 97, 106, 105>>, <<47, 114>> })
        parts == split_ws(tl, 1, <<>>)
    IN  IF tl = <<47, 115, 116, 97, 116, 117, 115>> THEN [cmd |-> "status", val |-> NoVal]
        ELSE IF h[1] THEN [cmd |-> "hira", val |-> h[2]]
        ELSE IF r[1] THEN [cmd |-> "romaji", val |-> r[2]]
        ELSE IF startswith(tl, <<47, 113, 117, 105, 122>>)
        THEN IF Len(parts) = 1 THEN [cmd |-> "quiz_help", val |-> NoVal]
             ELSE IF parts[2] = <<114, 101, 97, 100, 105, 110, 103>>
                  THEN [cmd |-> "quiz_start", val |-> "reading"]
             ELSE IF parts[2] = <<109, 101, 97, 110, 105, 110, 103>>
                  THEN [cmd |-> "quiz_start", val |-> "meaning"]
             ELSE IF parts[2] = <<103, 114, 97, 109, 109, 97, 114>>
                  THEN [cmd |-> "quiz_start", val |-> "grammar"]
             ELSE IF parts[2] \in { <<115, 116, 111, 112>>, <<101, 110, 100>>, <<102, 105, 110, 105, 115, 104>> }
                  THEN [cmd |-> "quiz_stop", val |-> NoVal]
             ELSE [cmd |-> "quiz_help", val |-> NoVal]
        \* the aliases: "N5" + U+8AAD U+307F, with a space, + U+65B9; ...
        ELSE IF t \in { <<78, 53, 35501, 12415>>, <<78, 53, 32, 35501, 12415>>,
                        <<78, 53, 35501, 12415, 26041>> }
             THEN [cmd |-> "quiz_start", val |-> "reading"]
        ELSE IF t \in { <<78, 53, 24847, 21619>>, <<78, 53, 32, 24847, 21619>> }
             THEN [cmd |-> "quiz_start", val |-> "meaning"]
        ELSE IF t \in { <<78, 53, 25991, 27861>>, <<78, 53, 32, 25991, 27861>> }
             THEN [cmd |-> "quiz_start", val |-> "grammar"]
        ELSE IF t \in { <<78, 53, 32066, 20102>>, <<78, 53, 32, 32066, 20102>> }
             THEN [cmd |-> "quiz_stop", val |-> NoVal]
        ELSE [cmd |-> "None", val |-> NoVal]

\* re.fullmatch(r"\s*([1-4])\s*", user_text): 0 without a match, else the
\* digit 1..4 of group 1
answer_match(user_text) ==
    LET i == SkipSpaces(user_text, 1)
    IN  IF /\ i <= Len(user_text)
           /\ user_text[i] \in 49..52
           /\ SkipSpaces(user_text, i + 1) = Len(user_text) + 1
        THEN user_text[i] - 48
        ELSE 0

\* vi_chars of guess_and_translate (lines 46-54)
vi_chars ==
    {
      192, 193, 194, 195, 200, 201, 202, 204, 205, 210, 211, 212, 213, 217,
      218, 221, 224, 225, 226, 227, 232, 233, 234, 236, 237, 242, 243, 244,
      245, 249, 250, 253, 258, 259, 272, 273, 296, 297, 360, 361, 416, 417,
      431, 432, 7840, 7841, 7842, 7843, 7844, 7845, 7846, 7847, 7848, 7849,
      7850, 7851, 7852, 7853, 7854, 7855, 7856, 7857, 7858, 7859, 7860,
      7861, 7862, 7863, 7864, 7865, 7866, 7867, 7868, 7869, 7870, 7871,
      7872, 7873, 7874, 7875, 7876, 7877, 7878, 7879, 7880, 7881, 7882,
      7883, 7884, 7885, 7886, 7887, 7888, 7889, 7890, 7891, 7892, 7893,
      7894, 7895, 7896, 7897, 7898, 7899, 7900, 7901, 7902, 7903, 7904,
      7905, 7906, 7907, 7908, 7909, 7910, 7911, 7912, 7913, 7914, 7915,
      7916, 7917, 7918, 7919, 7920, 7921, 7922, 7923, 7924, 7925, 7926,
      7927, 7928, 7929 }

\* is_vi of guess_and_translate
is_vi(text) == \E i \in 1..Len(text) : lower_char(text[i]) \in vi_chars

(***************************************************************************)
(* State management (lines 169-186).  st is the dict state, keyed by chat  *)
(* id; a value None is "None" for quiz_mode and the empty sequence for     *)
(* quiz_last (a set quiz_last is a one-element sequence).                   *)
(***************************************************************************)
NoneMode == "None"

QuizModes == {"reading", "meaning", "grammar"}

\* DEFAULTS as the module sets it (lines 170-175)
DEFAULTS_literal ==
    [show_hira |-> TRUE, show_romaji |-> TRUE,
     quiz_mode |-> NoneMode, quiz_last |-> <<>>]

\* st[chat] = v
Put(st, chat, v) ==
    [c \in DOMAIN st \cup {chat} |-> IF c = chat THEN v ELSE st[c]]

\* get_state without the test of line 178: the entry is set to a copy of
\* DEFAULTS at every call
get_state_Reset(st, dflt, chat) == Put(st, chat, dflt)

\* get_state(chat_id): the dict after the call (the entry is a copy of
\* DEFAULTS when the chat is new); the dict returned is entry chat of it
get_state(st, dflt, chat) ==
    IF chat \in DOMAIN st THEN st ELSE Put(st, chat, dflt)

\* set_state writing the keys into one shared settings dict: every chat's
\* entry gets them
set_state_Shared(st, dflt, chat, kwargs) ==
    LET st1 == get_state(st, dflt, chat)
    IN  [c \in DOMAIN st1 |->
            [k \in DOMAIN st1[c] |->
                IF k \in DOMAIN kwargs THEN kwargs[k] ELSE st1[c][k]]]

\* set_state(chat_id, **kwargs): only the keys the entry has are updated
set_state(st, dflt, chat, kwargs) ==
    LET st1 == get_state(st, dflt, chat)
        s   == st1[chat]
    IN  Put(st1, chat,
            [k \in DOMAIN s |-> IF k \in DOMAIN kwargs THEN kwargs[k] ELSE s[k]])

(***************************************************************************)
(* The quiz (lines 192-318).  A row of a quiz table is a record: question  *)
(* (the question text next_quiz formats) and explain are passed on as      *)
(* they are; choices and answer are the strings of the CSV fields, or      *)
(* PyNone where csv.DictReader found the line too short.                   *)
(***************************************************************************)
\* None in a place that holds a str otherwise (no str holds code point -1)
PyNone == << -1 >>

\* s.split(sep) from index i on; cur is the piece being read
RECURSIVE split_on(_, _, _, _)
split_on(s, sep, i, cur) ==
    IF i > Len(s) THEN <<cur>>
    ELSE IF s[i] = sep THEN <<cur>> \o split_on(s, sep, i + 1, <<>>)
    ELSE split_on(s, sep, i + 1, Append(cur, s[i]))

\* re.sub(r"^\d+\)\s*", "", p)
strip_number(p) ==
    LET n == DigitRun(p, 1)
    IN  IF n >= 1 /\ n + 1 <= Len(p) /\ p[n + 1] = 41
        THEN SubSeq(p, SkipSpaces(p, n + 2), Len(p))
        ELSE p

\* _split_choices(choices_str), choices_str a str
_split_choices(choices_str) ==
    LET pieces  == split_on(choices_str, 59, 1, <<>>)
        parts   == SelectSeq([i \in 1..Len(pieces) |-> strip(pieces[i])],
                             LAMBDA p : p # <<>>)
        cleaned == [i \in 1..Len(parts) |-> strip_number(parts[i])]
    IN  SubSeq(cleaned, 1, Min(4, Len(cleaned)))

\* int(str(answer).strip()): <<TRUE, value>>, or <<FALSE, 0>> when int
\* raises (str(None) is "None", not a number)
int_of(answer) ==
    LET t == IF answer = PyNone THEN <<78, 111, 110, 101>> ELSE strip(answer)
        signed == t # <<>> /\ t[1] \in {43, 45}
        ds == IF signed THEN Tail(t) ELSE t
    IN  IF ds # <<>> /\ DigitRun(ds, 1) = Len(ds)
        THEN <<TRUE, IF signed /\ t[1] = 45 THEN 0 - DecValue(ds) ELSE DecValue(ds)>>
        ELSE <<FALSE, 0>>

\* lines 259-264: the 0-based index of the correct choice
correct_index_original(row, choices) ==
    LET n == int_of(row.answer)
        c == IF n[1] THEN n[2] - 1 ELSE 0
    IN  IF 0 <= c /\ c < Len(choices) THEN c ELSE 0

\* the orders random.shuffle can leave a list of n items in: indexed[i]
\* is the pair (p[i] - 1, choices[p[i]])
Perms(n) ==
    {p \in [1..n -> 1..n] : \A i, j \in 1..n : p[i] = p[j] => i = j}

\* Perms for the lengths _split_choices returns (cleaned[:4])
PermsOf == [n \in 0..4 |-> Perms(n)]

\* next_quiz keeping the index the row gives, not the one after the shuffle
new_answer_index_Unshuffled(p, correct) == correct

\* line 271: where the original correct choice went (0-based), 0 if nowhere
new_answer_index(p, correct) ==
    LET at == {i \in 1..Len(p) : p[i] - 1 = correct}
    IN  IF at = {} THEN 0 ELSE (CHOOSE i \in at : \A j \in at : i <= j) - 1

\* the table next_quiz reads for a mode
TableOf(mode) ==
    CASE mode = "reading" -> READING
      [] mode = "meaning" -> MEANING
      [] OTHER -> GRAMMAR

\* what a call leaves: st the dict state, ret the value returned (<<>> for
\* None or when the call raised), raised whether it ended in an exception;
\* row and perm are the row _pick_random and the order random.shuffle chose
\* (empty when the call got to neither)
Outcome(st, ret, raised, row, perm) ==
    [st |-> st, ret |-> ret, raised |-> raised, row |-> row, perm |-> perm]

\* lines 257-283 for the row and the order chosen
pose(st, chat, mode, row, p) ==
    LET choices  == _split_choices(row.choices)
        correct  == correct_index_original(row, choices)
        shuffled == [i \in 1..Len(p) |-> choices[p[i]]]
        last     == [mode |-> mode, question |-> row.question,
                     choices |-> shuffled,
                     answer_index |-> new_answer_index(p, correct),
                     explain |-> row.explain]
        s        == [st[chat] EXCEPT !.quiz_last = <<last>>]
    IN  Outcome(set_state(Put(st, chat, s), DEFAULTS, chat, s),
                << [kind |-> "question", mode |-> mode,
                    question |-> row.question, choices |-> shuffled] >>,
                FALSE, <<row>>, p)

\* next_quiz(chat_id): the outcomes the random choices allow
next_quiz(st, chat) ==
    LET st1  == get_state(st, DEFAULTS, chat)
        mode == st1[chat].quiz_mode
        rows == TableOf(mode)
    IN  IF mode \notin QuizModes
        THEN {Outcome(st1, << [kind |-> "not_started"] >>, FALSE, <<>>, <<>>)}
        ELSE IF rows = <<>>
        THEN {Outcome(st1, << [kind |-> "no_rows", mode |-> mode] >>,
                      FALSE, <<>>, <<>>)}
        ELSE UNION {
               IF rows[r].choices = PyNone
               \* None.split raises AttributeError
               THEN {Outcome(st1, <<>>, TRUE, <<rows[r]>>, <<>>)}
               ELSE {pose(st1, chat, mode, rows[r], p) :
                        p \in PermsOf[Len(_split_choices(rows[r].choices))]}
               : r \in 1..Len(rows)}

\* start_quiz(chat_id, mode)
start_quiz(st, chat, mode) ==
    next_quiz(set_state(st, DEFAULTS, chat,
                        [quiz_mode |-> mode, quiz_last |-> <<>>]), chat)

\* stop_quiz leaving the question in place
stop_quiz_KeepLast(st, chat) ==
    Outcome(set_state(st, DEFAULTS, chat, [quiz_mode |-> NoneMode]),
            << [kind |-> "quiz_stopped"] >>, FALSE, <<>>, <<>>)

\* stop_quiz(chat_id)
stop_quiz(st, chat) ==
    Outcome(set_state(st, DEFAULTS, chat,
                      [quiz_mode |-> NoneMode, quiz_last |-> <<>>]),
            << [kind |-> "quiz_stopped"] >>, FALSE, <<>>, <<>>)

\* judge_and_next(chat_id, user_text): the outcomes
judge_and_next(st, chat, user_text) ==
    LET m    == answer_match(user_text)
        sel  == m - 1
        st1  == get_state(st, DEFAULTS, chat)
        last == st1[chat].quiz_last
    IN  IF m = 0 THEN {Outcome(st, <<>>, FALSE, <<>>, <<>>)}
        ELSE IF last = <<>>
        THEN {Outcome(st1, << [kind |-> "no_last"] >>, FALSE, <<>>, <<>>)}
        ELSE IF last[1].answer_index >= Len(last[1].choices)
        \* choices[answer_index] raises IndexError
        THEN {Outcome(st1, <<>>, TRUE, <<>>, <<>>)}
        ELSE {IF nxt.raised THEN nxt
              ELSE Outcome(nxt.st,
                       << [kind |-> "judged",
                           correct |-> (sel = last[1].answer_index),
                           number |-> last[1].answer_index + 1,
                           correct_text |->
                               last[1].choices[last[1].answer_index + 1],
                           explain |-> last[1].explain,
                           next |-> nxt.ret[1]] >>,
                       FALSE, nxt.row, nxt.perm)
              : nxt \in next_quiz(st1, chat)}

(***************************************************************************)
(* SpecWebhook: the requests POST /webhook serves, one after the other.    *)
(* A request is taken in (signature check, lines 374-382), then its        *)
(* events are handled one per step in the order of the list (lines         *)
(* 384-465), then 200 is returned (line 467); an exception ends the        *)
(* request at once with status 500.  The events of a request, any number   *)
(* of them, are drawn when the loop reaches them.                          *)
(***************************************************************************)
\* text[:4900] of reply_message
ReplyLimit == 4900

\* X-Line-Signature: absent (None), empty, the base64 HMAC of the body
\* ("valid"), another ASCII string ("wrong"), a string with a non-ASCII
\* character ("nonascii")
Signatures == {"None", "", "valid", "wrong", "nonascii"}

\* request.get_data(): empty, or a JSON object with a list of events
Bodies == {"empty", "events"}

\* not signature
falsy(signature) == signature \in {"None", ""}

\* verify_signature(body, signature): "raise" is the TypeError
\* hmac.compare_digest raises for a str with a non-ASCII character
verify_signature(body, signature) ==
    CASE signature = "nonascii" -> "raise"
      [] signature = "valid" -> "True"
      [] OTHER -> "False"

\* the sources of events: user U1 alone, and U1 in group G1
Sources ==
    { [groupId |-> "", roomId |-> "", userId |-> "U1"],
      [groupId |-> "G1", roomId |-> "", userId |-> "U1"] }

\* line 394: src.get("groupId") or src.get("roomId") or src.get("userId")
chat_id(src) ==
    IF src.groupId # "" THEN src.groupId
    ELSE IF src.roomId # "" THEN src.roomId
    ELSE IF src.userId # "" THEN src.userId
    ELSE "None"

\* the message texts of the model
Texts ==
    {
      \* /hira off
      <<47, 104, 105, 114, 97, 32, 111, 102, 102>>,
      \* /h on
      <<47, 104, 32, 111, 110>>,
      \* /romaji off
      <<47, 114, 111, 109, 97, 106, 105, 32, 111, 102, 102>>,
      \* /R  ON
      <<47, 82, 32, 32, 79, 78>>,
      \* /status
      <<47, 115, 116, 97, 116, 117, 115>>,
      \* /quiz
      <<47, 113, 117, 105, 122>>,
      \* /quiz reading
      <<47, 113, 117, 105, 122, 32, 114, 101, 97, 100, 105, 110, 103>>,
      \* /QUIZ grammar
      <<47, 81, 85, 73, 90, 32, 103, 114, 97, 109, 109, 97, 114>>,
      \* N5 + U+610F U+5473 (the alias of /quiz meaning)
      <<78, 53, 24847, 21619>>,
      \* /quiz stop
      <<47, 113, 117, 105, 122, 32, 115, 116, 111, 112>>,
      \* 1
      <<49>>,
      \*  2 (with a space on either side)
      <<32, 50, 32>>,
      \* 5
      <<53>>,
      \* [JP(U+2192)VN] 1 (a tagged digit)
      <<91, 74, 80, 8594, 86, 78, 93, 32, 49>>,
      \* U+732B (Japanese)
      <<29483>>,
      \* xin ch(U+00E0)o (Vietnamese)
      <<120, 105, 110, 32, 99, 104, 224, 111>> }

TextEvents ==
    [type : {"message"}, mtype : {"text"}, source : Sources, text : Texts]

\* a follow event and an image message: the loop skips them
OtherEvents ==
    { [type |-> "follow", mtype |-> "", source |-> s, text |-> <<>>] :
          s \in Sources }
    \cup { [type |-> "message", mtype |-> "image", source |-> s, text |-> <<>>] :
               s \in Sources }

\* the quiz tables of SpecWebhook: Reading.csv has a row with two choices
\* ("1) a;2) b", answer "2") and a row with an empty choices field;
\* Meaning.csv is missing; Grammar.csv has one line that is too short
Row(q, c, a, e) == [question |-> q, choices |-> c, answer |-> a, explain |-> e]

WebReading ==
    << Row("q1", <<49, 41, 32, 97, 59, 50, 41, 32, 98>>, <<50>>, "e1"),
       Row("q2", <<>>, <<49>>, "") >>

WebMeaning == <<>>

WebGrammar == << Row("q3", PyNone, PyNone, "") >>

\* what deepl_translate can return: a text as the token stream the
\* tokenizer reads it as (toks), written rep times in a row
Translated ==
    { [toks |-> << Tok(<<29483>>, PosNoun, <<12493, 12467>>),
                   Tok(<<12290>>, PosSuppSymbol, LabelReading) >>, rep |-> 1],
      [toks |-> << Tok(<<29483>>, PosNoun, <<12493, 12467>>) >>, rep |-> 2500] }

\* len(translated)
translated_len(tr) == tr.rep * Len(SurfaceText(tr.toks))

TranslatedLen == [tr \in Translated |-> translated_len(tr)]

\* len(to_hiragana(translated, spaced=True)): the words of the repeated
\* text are the words of toks, rep times, joined by single spaces
hira_len(tr) ==
    LET h == Len(to_hiragana(tr.toks, TRUE))
    IN  IF tr.toks = <<>> THEN 0 ELSE tr.rep * h + (tr.rep - 1)

\* len(to_romaji(translated, spaced=True)): likewise for the parts
roma_len(tr) ==
    LET r == Len(to_romaji(tr.toks, TRUE))
    IN  IF r = 0 THEN 0 ELSE tr.rep * r + (tr.rep - 1)

HiraLen == [tr \in Translated |-> hira_len(tr)]

RomaLen == [tr \in Translated |-> roma_len(tr)]

Line(name, len) == [name |-> name, len |-> len, kept |-> len]

\* translation_lines that does not look at the switches
translation_lines_Always(src_lang, tr, s) ==
    IF src_lang = "VI"
    THEN << Line("tag", 7), Line("translated", TranslatedLen[tr]),
            Line("hira", 8 + HiraLen[tr]), Line("romaji", 9 + RomaLen[tr]) >>
    ELSE << Line("tag", 7), Line("translated", TranslatedLen[tr]) >>

\* lines 453-463: the lines of a translation reply, each with its length
translation_lines(src_lang, tr, s) ==
    IF src_lang = "VI"
    THEN << Line("tag", 7), Line("translated", TranslatedLen[tr]) >>
         \o (IF s.show_hira THEN << Line("hira", 8 + HiraLen[tr]) >> ELSE <<>>)
         \o (IF s.show_romaji THEN << Line("romaji", 9 + RomaLen[tr]) >> ELSE <<>>)
    ELSE << Line("tag", 7), Line("translated", TranslatedLen[tr]) >>

\* "\n".join(lines)[:limit]: kept is how much of each line is sent
RECURSIVE Truncate(_, _)
Truncate(lines, limit) ==
    IF lines = <<>> THEN <<>>
    ELSE << [Head(lines) EXCEPT
                !.kept = IF limit <= 0 THEN 0 ELSE Min(Head(lines).len, limit)] >>
         \o Truncate(Tail(lines), limit - Head(lines).len - 1)

\* reply_message(reply_token, text): the message sent.  Only a translation
\* reply can exceed the limit: the other replies are short for the quiz
\* tables of the model.
reply_message(msg) ==
    IF msg.kind = "translation"
    THEN [msg EXCEPT !.lines = Truncate(@, ReplyLimit)]
    ELSE msg

InitWebhook ==
    /\ state = <<>>
    /\ DEFAULTS = DEFAULTS_literal
    /\ READING = WebReading /\ MEANING = WebMeaning /\ GRAMMAR = WebGrammar
    /\ w_pc = "idle" /\ w_status = 0
    /\ w_req = <<>> /\ w_ev = <<>> /\ w_branch = "" /\ w_reply = <<>>
    /\ q_call = <<>>
    /\ KanjiIdle /\ PriceIdle /\ TextIdle

webFixed == <<DEFAULTS, READING, MEANING, GRAMMAR, q_call,
              kanjiVars, priceVars, textVars>>

\* a request is answered without any event being looked at
Answered(sig, body, status) ==
    /\ w_pc = "idle"
    /\ w_req' = << [signature |-> sig, body |-> body] >>
    /\ w_status' = status
    /\ w_ev' = <<>> /\ w_branch' = "" /\ w_reply' = <<>>
    /\ UNCHANGED <<state, w_pc, webFixed>>

\* lines 376-377: no signature and no body
WebhookEmpty ==
    \E sig \in Signatures, body \in Bodies :
        /\ falsy(sig) /\ body = "empty"
        /\ Answered(sig, body, 200)

\* lines 378-379: the signature is missing or does not verify
WebhookBadSignature ==
    \E sig \in Signatures, body \in Bodies :
        /\ ~(falsy(sig) /\ body = "empty")
        /\ falsy(sig) \/ verify_signature(body, sig) = "False"
        /\ Answered(sig, body, 400)

\* line 378: verify_signature raises
WebhookSignatureError ==
    \E sig \in Signatures, body \in Bodies :
        /\ ~(falsy(sig) /\ body = "empty")
        /\ ~falsy(sig) /\ verify_signature(body, sig) = "raise"
        /\ Answered(sig, body, 500)

\* lines 381-382: the signature verifies; the loop starts
WebhookAccept ==
    \E sig \in Signatures, body \in Bodies :
        /\ w_pc = "idle"
        /\ ~(falsy(sig) /\ body = "empty")
        /\ ~falsy(sig) /\ verify_signature(body, sig) = "True"
        /\ w_req' = << [signature |-> sig, body |-> body] >>
        /\ w_pc' = "loop"
        /\ w_status' = 0
        /\ w_ev' = <<>> /\ w_branch' = "" /\ w_reply' = <<>>
        /\ UNCHANGED <<state, webFixed>>

\* line 467: the loop is through the events
WebhookReturn ==
    /\ w_pc = "loop"
    /\ w_pc' = "idle"
    /\ w_status' = 200
    /\ w_ev' = <<>> /\ w_branch' = "" /\ w_reply' = <<>>
    /\ UNCHANGED <<state, w_req, webFixed>>

\* one turn of the loop for event ev: branch is the branch taken, st the
\* dict state it leaves, replies the messages it sent; raised ends the
\* request
Handled(ev, branch, st, replies, raised) ==
    /\ state' = st
    /\ w_ev' = <<ev>>
    /\ w_branch' = branch
    /\ w_reply' = replies
    /\ w_pc' = IF raised THEN "idle" ELSE "loop"
    /\ w_status' = IF raised THEN 500 ELSE w_status
    /\ UNCHANGED <<w_req, webFixed>>

\* the loop has an event to look at (an empty body has none)
InLoop == w_pc = "loop" /\ w_req[1].body = "events"

\* lines 385-389: not a text message
SkipEvent ==
    \E ev \in OtherEvents :
        /\ InLoop
        /\ ev.type # "message" \/ ev.mtype # "text"
        /\ Handled(ev, "skip", state, <<>>, FALSE)

\* line 391, for every text of the model
TagStripped == [t \in Texts \cup {<<>>} |-> tag_prefix_sub(t)]

EvText(ev) == TagStripped[ev.text]

\* line 398, for every text of the model
Parsed == [t \in Texts \cup {<<>>} |-> parse_command(TagStripped[t])]

EvCommand(ev) == Parsed[ev.text]

\* line 395: the dict state once get_state has run
Entered(ev) == get_state(state, DEFAULTS, chat_id(ev.source))

\* lines 400-403
CmdHira ==
    \E ev \in TextEvents :
        LET c == EvCommand(ev) IN
        /\ InLoop
        /\ c.cmd = "hira"
        /\ Handled(ev, "hira",
                   set_state(Entered(ev), DEFAULTS, chat_id(ev.source),
                             [show_hira |-> c.val]),
                   << reply_message([kind |-> "hira_set", on |-> c.val]) >>,
                   FALSE)

\* lines 405-408
CmdRomaji ==
    \E ev \in TextEvents :
        LET c == EvCommand(ev) IN
        /\ InLoop
        /\ c.cmd = "romaji"
        /\ Handled(ev, "romaji",
                   set_state(Entered(ev), DEFAULTS, chat_id(ev.source),
                             [show_romaji |-> c.val]),
                   << reply_message([kind |-> "romaji_set", on |-> c.val]) >>,
                   FALSE)

\* lines 410-418
CmdStatus ==
    \E ev \in TextEvents :
        LET c == EvCommand(ev)
            s == Entered(ev)[chat_id(ev.source)]
        IN
        /\ InLoop
        /\ c.cmd = "status"
        /\ Handled(ev, "status", Entered(ev),
                   << reply_message([kind |-> "status", hira |-> s.show_hira,
                                     romaji |-> s.show_romaji,
                                     quiz |-> IF s.quiz_mode = NoneMode
                                              THEN "OFF" ELSE s.quiz_mode]) >>,
                   FALSE)

\* lines 420-430
CmdQuizHelp ==
    \E ev \in TextEvents :
        LET c == EvCommand(ev) IN
        /\ InLoop
        /\ c.cmd = "quiz_help"
        /\ Handled(ev, "quiz_help", Entered(ev),
                   << reply_message([kind |-> "quiz_help"]) >>, FALSE)

\* the replies of a call that returned ret
Replies(o) ==
    IF o.raised THEN <<>> ELSE << reply_message(o.ret[1]) >>

\* lines 432-436
CmdQuizStart ==
    \E ev \in TextEvents :
        LET c == EvCommand(ev) IN
        /\ InLoop
        /\ c.cmd = "quiz_start"
        /\ \E o \in start_quiz(Entered(ev), chat_id(ev.source), c.val) :
               Handled(ev, "quiz_start", o.st, Replies(o), o.raised)

\* lines 438-441
CmdQuizStop ==
    \E ev \in TextEvents :
        LET c == EvCommand(ev)
            o == stop_quiz(Entered(ev), chat_id(ev.source))
        IN
        /\ InLoop
        /\ c.cmd = "quiz_stop"
        /\ Handled(ev, "quiz_stop", o.st, Replies(o), o.raised)

\* lines 444-448: a quiz is on and judge_and_next did not return None
QuizAnswer ==
    \E ev \in TextEvents :
        LET c == EvCommand(ev)
            s == Entered(ev)[chat_id(ev.source)]
        IN
        /\ InLoop
        /\ c.cmd = "None"
        /\ s.quiz_mode # NoneMode
        /\ \E o \in judge_and_next(Entered(ev), chat_id(ev.source), EvText(ev)) :
               /\ o.raised \/ o.ret # <<>>
               /\ Handled(ev, "judge", o.st, Replies(o), o.raised)

\* guess_and_translate(text): the source language (line 55)
src_lang(text) == IF is_vi(text) THEN "VI" ELSE "JA"

SrcLang == [t \in Texts \cup {<<>>} |-> src_lang(TagStripped[t])]

\* what a call of deepl_translate ends in: <<text>> returned, or <<>> when
\* it raises (timeout, raise_for_status)
DeeplOutcomes == {<<tr>> : tr \in Translated} \cup {<<>>}

\* lines 450-465
Translate ==
    \E ev \in TextEvents, d \in DeeplOutcomes :
        LET c == EvCommand(ev)
            s == Entered(ev)[chat_id(ev.source)]
        IN
        /\ InLoop
        /\ c.cmd = "None"
        /\ \/ s.quiz_mode = NoneMode
           \/ \E o \in judge_and_next(Entered(ev), chat_id(ev.source), EvText(ev)) :
                  ~o.raised /\ o.ret = <<>>
        /\ IF d = <<>>
           THEN Handled(ev, "translate", Entered(ev), <<>>, TRUE)
           ELSE Handled(ev, "translate", Entered(ev),
                        << reply_message(
                             [kind |-> "translation",
                              src |-> SrcLang[ev.text],
                              lines |-> translation_lines(SrcLang[ev.text],
                                                          d[1], s)]) >>,
                        FALSE)

NextWebhook ==
    \/ WebhookEmpty \/ WebhookBadSignature \/ WebhookSignatureError
    \/ WebhookAccept \/ WebhookReturn
    \/ SkipEvent
    \/ CmdHira \/ CmdRomaji \/ CmdStatus \/ CmdQuizHelp
    \/ CmdQuizStart \/ CmdQuizStop
    \/ QuizAnswer \/ Translate

SpecWebhook == InitWebhook /\ [][NextWebhook]_vars

(***************************************************************************)
(* SpecQuiz: start_quiz, next_quiz, judge_and_next and stop_quiz called    *)
(* in any order for one chat, over quiz tables with well-formed and        *)
(* malformed rows.                                                         *)
(***************************************************************************)
QuizChat == "U1"

\* Reading.csv: three numbered choices with answer 3; an empty choices
\* field; two choices with an empty answer field; two choices with
\* spaces around the fields and the answer
QuizReading ==
    << Row("r1", <<49, 41, 32, 97, 59, 50, 41, 32, 98, 59, 51, 41, 32, 99>>, <<51>>, "e1"),
       Row("r2", <<>>, <<49>>, ""),
       Row("r3", <<97, 59, 98>>, <<>>, ""),
       Row("r4", <<32, 49, 41, 32, 97, 32, 59, 32, 50, 41, 32, 98, 32, 59>>, <<32, 50, 32>>, "e4") >>

\* Meaning.csv: twice the same choice; two choices on a line that ends
\* before the answer field
QuizMeaning ==
    << Row("m2", <<120, 59, 120>>, <<50>>, ""),
       Row("m3", <<97, 59, 98>>, PyNone, "") >>

\* Grammar.csv: five choices with answer 5; answer 0; answer +2; a line
\* that ends before the choices
QuizGrammar ==
    << Row("m1", <<97, 59, 98, 59, 99, 59, 100, 59, 101>>, <<53>>, ""),
       Row("g1", <<97, 59, 98>>, <<48>>, ""),
       Row("g2", <<97, 59, 98>>, <<43, 50>>, ""),
       Row("g3", PyNone, PyNone, "") >>

\* the texts judge_and_next is called with: 1, 3 with whitespace around
\* it, 5, x
AnswerTexts == { <<49>>, <<32, 51, 10>>, <<53>>, <<120>> }

InitQuiz ==
    /\ state = <<>>
    /\ DEFAULTS = DEFAULTS_literal
    /\ READING = QuizReading /\ MEANING = QuizMeaning /\ GRAMMAR = QuizGrammar
    /\ w_pc = "idle" /\ w_status = 0
    /\ w_req = <<>> /\ w_ev = <<>> /\ w_branch = "" /\ w_reply = <<>>
    /\ q_call = <<>>
    /\ KanjiIdle /\ PriceIdle /\ TextIdle

\* a call op(mode or text) that found the chat's quiz_last to be last and
\* ended in outcome o
Called(op, mode, text, o) ==
    /\ state' = o.st
    /\ q_call' = << [op |-> op, mode |-> mode, text |-> text,
                     last |-> IF QuizChat \in DOMAIN state
                              THEN state[QuizChat].quiz_last ELSE <<>>,
                     ret |-> o.ret, raised |-> o.raised,
                     row |-> o.row, perm |-> o.perm] >>
    /\ UNCHANGED <<DEFAULTS, READING, MEANING, GRAMMAR, w_pc, w_status, w_req,
                   w_ev, w_branch, w_reply, kanjiVars, priceVars, textVars>>

StartQuiz ==
    \E mode \in QuizModes :
        \E o \in start_quiz(state, QuizChat, mode) :
            Called("start_quiz", mode, <<>>, o)

NextQuiz ==
    \E o \in next_quiz(state, QuizChat) :
        Called("next_quiz", "", <<>>, o)

JudgeAndNext ==
    \E text \in AnswerTexts :
        \E o \in judge_and_next(state, QuizChat, text) :
            Called("judge_and_next", "", text, o)

StopQuiz ==
    \E o \in {stop_quiz(state, QuizChat)} :
        Called("stop_quiz", "", <<>>, o)

NextQuizSpec == StartQuiz \/ NextQuiz \/ JudgeAndNext \/ StopQuiz

SpecQuiz == InitQuiz /\ [][NextQuizSpec]_vars

\* C15: every stored quiz_last has 0 <= answer_index < len(choices), and
\* no call of judge_and_next ends in the IndexError of
\* choices[answer_index].
C15_AnswerIndexInRange ==
    /\ \A c \in DOMAIN state :
           state[c].quiz_last # <<>> =>
               /\ 0 <= state[c].quiz_last[1].answer_index
               /\ state[c].quiz_last[1].answer_index
                      < Len(state[c].quiz_last[1].choices)
    /\ q_call # <<>> =>
           ~(/\ q_call[1].op = "judge_and_next"
             /\ q_call[1].raised
             /\ q_call[1].last # <<>>
             /\ q_call[1].last[1].answer_index >= Len(q_call[1].last[1].choices))

(***************************************************************************)
(* What the rows of the quiz tables say, read by hand: the choices in the  *)
(* order of the row and the 1-based number of the correct one (0 where     *)
(* the answer is no number of a choice).                                   *)
(***************************************************************************)
RowSays(q) ==
    CASE q = "r1" -> [choices |-> << <<97>>, <<98>>, <<99>> >>, answer |-> 3]
      [] q = "r2" -> [choices |-> <<>>, answer |-> 0]
      [] q = "r3" -> [choices |-> << <<97>>, <<98>> >>, answer |-> 0]
      [] q = "r4" -> [choices |-> << <<97>>, <<98>> >>, answer |-> 2]
      [] q = "m1" -> [choices |-> << <<97>>, <<98>>, <<99>>, <<100>> >>, answer |-> 0]
      [] q = "m2" -> [choices |-> << <<120>>, <<120>> >>, answer |-> 2]
      [] q = "m3" -> [choices |-> << <<97>>, <<98>> >>, answer |-> 0]
      [] q = "g1" -> [choices |-> << <<97>>, <<98>> >>, answer |-> 0]
      [] q = "g2" -> [choices |-> << <<97>>, <<98>> >>, answer |-> 2]
      [] OTHER -> [choices |-> <<>>, answer |-> 0]

\* x is y in another order
IsPermutationOf(x, y) ==
    /\ Len(x) = Len(y)
    /\ \E p \in PermsOf[Len(x)] : \A i \in 1..Len(x) : x[i] = y[p[i]]

\* C16: when a call has posed a question from a row with a valid answer,
\* the stored choices are the row's choices in some order and the choice
\* at answer_index is the row's correct choice; and judge_and_next says
\* "correct" exactly when the number sent minus one is the answer_index of
\* the question it judged.
C16_ShuffleKeepsAnswer ==
    q_call # <<>> =>
        LET call == q_call[1]
            last == state[QuizChat].quiz_last
        IN  /\ (/\ ~call.raised
                /\ call.row # <<>>
                /\ RowSays(call.row[1].question).answer > 0)
               => LET says == RowSays(call.row[1].question)
                  IN  /\ last # <<>>
                      /\ IsPermutationOf(last[1].choices, says.choices)
                      /\ last[1].answer_index \in 0..(Len(last[1].choices) - 1)
                      /\ last[1].choices[last[1].answer_index + 1]
                             = says.choices[says.answer]
            /\ (/\ call.op = "judge_and_next"
                /\ call.ret # <<>>
                /\ call.ret[1].kind = "judged")
               => (call.ret[1].correct
                      <=> answer_match(call.text) - 1
                              = call.last[1].answer_index)

\* judge_and_next judged answer 3 of the question of row r1 correct, its
\* choices stored as b, a, c, and posed the row again as c, b, a
C16_Witness ==
    /\ q_call # <<>>
    /\ q_call[1].op = "judge_and_next"
    /\ q_call[1].text = <<32, 51, 10>>
    /\ q_call[1].last # <<>>
    /\ q_call[1].last[1].choices = << <<98>>, <<97>>, <<99>> >>
    /\ q_call[1].last[1].answer_index = 2
    /\ q_call[1].ret # <<>>
    /\ q_call[1].ret[1].kind = "judged"
    /\ q_call[1].ret[1].correct
    /\ q_call[1].row # <<>>
    /\ q_call[1].row[1].question = "r1"
    /\ state[QuizChat].quiz_last[1].choices = << <<99>>, <<98>>, <<97>> >>
    /\ state[QuizChat].quiz_last[1].answer_index = 0

(***************************************************************************)
(* What the message texts of the model mean to a user, read by hand (a     *)
(* leading language tag does not count): class is the command, "digit"     *)
(* for one digit 1-4 with optional whitespace around it, "other" for any   *)
(* other text; on is the switch of /hira and /romaji, mode the quiz mode   *)
(* of a quiz start.                                                        *)
(***************************************************************************)
TextSays(text) ==
    CASE text = <<47, 104, 105, 114, 97, 32, 111, 102, 102>> ->
             [class |-> "hira", on |-> FALSE, mode |-> ""]
      [] text = <<47, 104, 32, 111, 110>> ->
             [class |-> "hira", on |-> TRUE, mode |-> ""]
      [] text = <<47, 114, 111, 109, 97, 106, 105, 32, 111, 102, 102>> ->
             [class |-> "romaji", on |-> FALSE, mode |-> ""]
      [] text = <<47, 82, 32, 32, 79, 78>> ->
             [class |-> "romaji", on |-> TRUE, mode |-> ""]
      [] text = <<47, 115, 116, 97, 116, 117, 115>> ->
             [class |-> "status", on |-> FALSE, mode |-> ""]
      [] text = <<47, 113, 117, 105, 122>> ->
             [class |-> "quiz_help", on |-> FALSE, mode |-> ""]
      [] text = <<47, 113, 117, 105, 122, 32, 114, 101, 97, 100, 105, 110, 103>> ->
             [class |-> "quiz_start", on |-> FALSE, mode |-> "reading"]
      [] text = <<47, 81, 85, 73, 90, 32, 103, 114, 97, 109, 109, 97, 114>> ->
             [class |-> "quiz_start", on |-> FALSE, mode |-> "grammar"]
      [] text = <<78, 53, 24847, 21619>> ->
             [class |-> "quiz_start", on |-> FALSE, mode |-> "meaning"]
      [] text = <<47, 113, 117, 105, 122, 32, 115, 116, 111, 112>> ->
             [class |-> "quiz_stop", on |-> FALSE, mode |-> ""]
      [] text = <<49>> ->
             [class |-> "digit", on |-> FALSE, mode |-> ""]
      [] text = <<32, 50, 32>> ->
             [class |-> "digit", on |-> FALSE, mode |-> ""]
      [] text = <<91, 74, 80, 8594, 86, 78, 93, 32, 49>> ->
             [class |-> "digit", on |-> FALSE, mode |-> ""]
      [] OTHER -> [class |-> "other", on |-> FALSE, mode |-> ""]

Chats == {"U1", "G1"}

\* a step that is one turn of the loop, and one for a text message
LoopTurn == w_pc = "loop" /\ w_ev' # <<>>

TextTurn ==
    LoopTurn /\ w_ev'[1].type = "message" /\ w_ev'[1].mtype = "text"

\* the chat of the event of the turn: the group when there is one, else
\* the user
TurnChat ==
    IF w_ev'[1].source.groupId # "" THEN w_ev'[1].source.groupId
    ELSE w_ev'[1].source.userId

TurnSays == TextSays(w_ev'[1].text)

\* the settings and quiz state of chat c before and after the step; a chat
\* not seen yet has the defaults
Before(c) == IF c \in DOMAIN state THEN state[c] ELSE DEFAULTS_literal

After(c) == IF c \in DOMAIN state' THEN state'[c] ELSE DEFAULTS_literal

\* the switch key of chat c after a step, by the claim: what the step's
\* command of class cls says if it is one for c, else what it was
SwitchAfter(c, key, cls) ==
    IF TextTurn /\ TurnChat = c /\ TurnSays.class = cls
    THEN TurnSays.on
    ELSE Before(c)[key]

\* the reply holds (some of) line name; it holds all of it
HasLine(r, name) ==
    \E i \in 1..Len(r.lines) : r.lines[i].name = name /\ r.lines[i].kept > 0

HasWholeLine(r, name) ==
    \E i \in 1..Len(r.lines) :
        r.lines[i].name = name /\ r.lines[i].kept = r.lines[i].len

\* the text of the reply was built with line name
BuiltWithLine(r, name) ==
    \E i \in 1..Len(r.lines) : r.lines[i].name = name

\* where line i of the text built ends (lines are joined by one newline)
RECURSIVE LineEnd(_, _)
LineEnd(lines, i) ==
    IF i = 0 THEN 0
    ELSE LineEnd(lines, i - 1) + (IF i > 1 THEN 1 ELSE 0) + lines[i].len

\* the switches follow the commands: default on, the last /hira and
\* /romaji of the chat wins
SwitchesFollowCommands ==
    \A c \in Chats :
        /\ After(c).show_hira = SwitchAfter(c, "show_hira", "hira")
        /\ After(c).show_romaji = SwitchAfter(c, "show_romaji", "romaji")

\* C11 as stated: the switches of a chat follow its commands, and a
\* Vietnamese-to-Japanese translation reply holds the hiragana line
\* exactly when show_hira is on and the romaji line exactly when
\* show_romaji is on; a Japanese-to-Vietnamese reply holds neither.
C11_SettingsDecideAnnotations ==
    [][ /\ SwitchesFollowCommands
        /\ (/\ TextTurn
            /\ w_reply' # <<>>
            /\ w_reply'[1].kind = "translation")
           => LET r == w_reply'[1]
                  s == After(TurnChat)
              IN  IF r.src = "VI"
                  THEN /\ HasLine(r, "hira") <=> s.show_hira
                       /\ HasLine(r, "romaji") <=> s.show_romaji
                  ELSE ~HasLine(r, "hira") /\ ~HasLine(r, "romaji") ]_vars

\* C11 amended: the switches of a chat follow its commands; the text of a
\* Vietnamese-to-Japanese translation reply is built with the hiragana
\* line exactly when show_hira is on and with the romaji line exactly
\* when show_romaji is on, in this order after the tag and the
\* translation; the reply sent holds a line whole exactly when the text
\* was built with it and the line ends within the first ReplyLimit
\* characters, and nothing of it when it starts beyond them; a
\* Japanese-to-Vietnamese reply is built with neither line.
C11_SettingsDecideLines ==
    [][ /\ SwitchesFollowCommands
        /\ (/\ TextTurn
            /\ w_reply' # <<>>
            /\ w_reply'[1].kind = "translation")
           => LET r == w_reply'[1]
                  s == After(TurnChat)
                  names == [i \in 1..Len(r.lines) |-> r.lines[i].name]
              IN  /\ IF r.src = "VI"
                     THEN names = <<"tag", "translated">>
                              \o (IF s.show_hira THEN <<"hira">> ELSE <<>>)
                              \o (IF s.show_romaji THEN <<"romaji">> ELSE <<>>)
                     ELSE names = <<"tag", "translated">>
                  /\ \A i \in 1..Len(r.lines) :
                         /\ r.lines[i].kept = r.lines[i].len
                                <=> LineEnd(r.lines, i) <= ReplyLimit
                         /\ r.lines[i].kept = 0
                                <=> LineEnd(r.lines, i) - r.lines[i].len
                                        >= ReplyLimit ]_vars

\* chat U1 has switched the hiragana line off and got a Vietnamese text
\* translated: the reply is the tag, the translation and the romaji line
C11_Witness ==
    /\ "U1" \in DOMAIN state
    /\ ~state["U1"].show_hira /\ state["U1"].show_romaji
    /\ w_ev # <<>>
    /\ w_ev[1].source.groupId = ""
    /\ w_ev[1].text = <<120, 105, 110, 32, 99, 104, 224, 111>>
    /\ w_reply # <<>>
    /\ w_reply[1].kind = "translation"
    /\ w_reply[1].src = "VI"
    /\ Len(w_reply[1].lines) = 3
    /\ w_reply[1].lines[3].name = "romaji"
    /\ w_reply[1].lines[3].kept = w_reply[1].lines[3].len

\* a text that is neither a command nor, with a quiz on in its chat, an
\* answer
TranslationMessage ==
    /\ TextTurn
    /\ \/ TurnSays.class = "other"
       \/ TurnSays.class = "digit" /\ Before(TurnChat).quiz_mode = "None"

\* C12: handling a translation message leaves the stored settings and quiz
\* state of every chat as they were; the one entry it may create is the
\* entry of the message's chat, with the default values.
C12_TranslationWritesNoState ==
    [][ TranslationMessage =>
            /\ DOMAIN state' \subseteq DOMAIN state \cup {TurnChat}
            /\ \A c \in DOMAIN state : c \in DOMAIN state' /\ state'[c] = state[c]
            /\ \A c \in DOMAIN state' \ DOMAIN state :
                   state'[c] = [show_hira |-> TRUE, show_romaji |-> TRUE,
                                quiz_mode |-> "None", quiz_last |-> <<>>] ]_vars

\* chat U1, with the romaji line off and a reading question open, has had
\* the text 5 translated
C12_Witness ==
    /\ w_branch = "translate"
    /\ w_ev # <<>>
    /\ w_ev[1].source.groupId = ""
    /\ w_ev[1].text = <<53>>
    /\ w_reply # <<>>
    /\ w_reply[1].kind = "translation"
    /\ "U1" \in DOMAIN state
    /\ ~state["U1"].show_romaji
    /\ state["U1"].quiz_mode = "reading"
    /\ state["U1"].quiz_last # <<>>

\* the branch the dispatch order gives the text of the turn: a command
\* first, then an answer while the chat's quiz is on, else translation
BranchSaid ==
    IF TurnSays.class \notin {"digit", "other"} THEN TurnSays.class
    ELSE IF TurnSays.class = "digit" /\ Before(TurnChat).quiz_mode # "None"
    THEN "judge"
    ELSE "translate"

\* C14: every text message of a request with a valid signature is handled
\* by the one branch the order command, quiz answer, translation gives it,
\* and gets exactly one reply.
C14_OneBranchOneReply ==
    [][ TextTurn =>
            /\ w_branch' = BranchSaid
            /\ Len(w_reply') = 1 ]_vars

\* the quiz state of chat c after the step is consistent
QuizConsistentAfter(c) ==
    After(c).quiz_last # <<>> =>
        /\ After(c).quiz_mode \in {"reading", "meaning", "grammar"}
        /\ After(c).quiz_last[1].mode = After(c).quiz_mode

\* C17: a set quiz_last goes with a quiz_mode that is one of the three
\* modes and equal to quiz_last.mode; a quiz start leaves the new mode and
\* no question but the one it has just posed; a quiz stop clears mode and
\* question; a chat without a quiz stays without one until a quiz start,
\* and a digit sent to it is translated, not judged.
C17_QuizSessionConsistent ==
    [][ /\ \A c \in Chats : QuizConsistentAfter(c)
        /\ \A c \in Chats :
               (/\ Before(c).quiz_mode = "None"
                /\ ~(TextTurn /\ TurnChat = c /\ TurnSays.class = "quiz_start"))
               => After(c).quiz_mode = "None" /\ After(c).quiz_last = <<>>
        /\ (TextTurn /\ TurnSays.class = "quiz_start")
           => /\ After(TurnChat).quiz_mode = TurnSays.mode
              /\ After(TurnChat).quiz_last # <<>>
                     <=> (w_reply' # <<>> /\ w_reply'[1].kind = "question")
              /\ After(TurnChat).quiz_last # <<>>
                     => /\ w_reply'[1].mode = TurnSays.mode
                        /\ w_reply'[1].question
                               = After(TurnChat).quiz_last[1].question
                        /\ w_reply'[1].choices
                               = After(TurnChat).quiz_last[1].choices
        /\ (TextTurn /\ TurnSays.class = "quiz_stop")
           => /\ After(TurnChat).quiz_mode = "None"
              /\ After(TurnChat).quiz_last = <<>>
        /\ (/\ TextTurn
            /\ TurnSays.class = "digit"
            /\ Before(TurnChat).quiz_mode = "None")
           => w_branch' = "translate" ]_vars

\* chat U1 has stopped its quiz while chat G1 has a reading question open
C17_Witness ==
    /\ w_branch = "quiz_stop"
    /\ w_ev # <<>>
    /\ w_ev[1].source.groupId = ""
    /\ "U1" \in DOMAIN state
    /\ state["U1"].quiz_mode = "None"
    /\ state["U1"].quiz_last = <<>>
    /\ "G1" \in DOMAIN state
    /\ state["G1"].quiz_mode = "reading"
    /\ state["G1"].quiz_last # <<>>
    /\ state["G1"].quiz_last[1].mode = "reading"

\* C18: a request whose signature is missing or is not the HMAC of the
\* body gets no event handled: no chat's state is created or changed, no
\* reply is sent, and the answer is 400, or 200 only when the signature
\* and the body are both empty.
C18_SignatureGate ==
    [][ (/\ w_pc = "idle"
         /\ w_req' # <<>>
         /\ w_req'[1].signature # "valid")
        => /\ state' = state
           /\ w_reply' = <<>>
           /\ w_ev' = <<>>
           /\ w_pc' = "idle"
           /\ \/ w_status' = 400
              \/ /\ w_status' = 200
                 /\ w_req'[1].signature \in {"None", ""}
                 /\ w_req'[1].body = "empty" ]_vars

\* C19: a step changes no chat's entry but that of the chat whose message
\* it handles, DEFAULTS stays what the module set it to, and every entry
\* has exactly the four keys of DEFAULTS.
C19_ChatsIsolated ==
    [][ /\ \A d \in Chats :
               (TextTurn /\ TurnChat = d)
               \/ /\ d \in DOMAIN state' <=> d \in DOMAIN state
                  /\ d \in DOMAIN state => state'[d] = state[d]
        /\ DOMAIN state' \subseteq Chats
        /\ DEFAULTS' = DEFAULTS
        /\ DEFAULTS' = [show_hira |-> TRUE, show_romaji |-> TRUE,
                        quiz_mode |-> "None", quiz_last |-> <<>>]
        /\ \A c \in DOMAIN state' :
               DOMAIN state'[c]
                   = {"show_hira", "show_romaji", "quiz_mode", "quiz_last"} ]_vars

\* chat U1 has started a reading quiz; chat G1 keeps its switches (the
\* hiragana line off) and has no quiz
C19_Witness ==
    /\ w_branch = "quiz_start"
    /\ w_ev # <<>>
    /\ w_ev[1].source.groupId = ""
    /\ "U1" \in DOMAIN state
    /\ state["U1"].show_hira
    /\ state["U1"].quiz_mode = "reading"
    /\ state["U1"].quiz_last # <<>>
    /\ "G1" \in DOMAIN state
    /\ ~state["G1"].show_hira
    /\ state["G1"].quiz_mode = "None"
    /\ state["G1"].quiz_last = <<>>

====
